---------------------------- MODULE Spec2Model ----------------------------
(***************************************************************************)
(* Model of Tempo's columnar iterator engine (pkg/parquetquery/iters.go),  *)
(* of the distributor's replication accounting, of the frontend's caching  *)
(* middleware and of the attribute lists of a block fetch.                 *)
(*                                                                         *)
(* The specifications that share the module:                               *)
(*   SpecSync  - one SyncIterator over a column split into row groups and  *)
(*               pages, driven by Next and SeekTo;                         *)
(*   SpecJoin  - a JoinIterator, LeftJoinIterator or UnionIterator over     *)
(*               child iterators, driven by Next and SeekTo;               *)
(*   SpecFail  - the same over child iterators whose reads can fail;       *)
(*   SpecDist  - the distributor's per-trace tallies of replica responses  *)
(*               and the final count of discarded spans;                   *)
(*   SpecRebatch - one call of the distributor's rebatcher;                *)
(*   SpecRate  - the distributor's ingestion rate limit check;             *)
(*   SpecTree  - a composite iterator over two SyncIterators, driven by    *)
(*               Next and SeekTo and then closed, once and again;          *)
(*   SpecCancel - one SyncIterator whose context is cancelled;             *)
(*   SpecBuf   - the value buffer of a SyncIterator and the buffer pool;   *)
(*   SpecRow   - the operations on one RowNumber;                          *)
(*   SpecNew   - the construction of a LeftJoinIterator;                   *)
(*   SpecKV    - one call of KeyValueGroupPredicate.KeepGroup;             *)
(*   SpecPush  - the distributor's processing of replica responses, each   *)
(*               for the traces of its own index list;                     *)
(*   SpecAttr  - the rebatcher's walk over the attributes of a batch, with *)
(*               a cap on the bytes of a key and of a string value;        *)
(*   SpecOpt   - two SyncIterators over one column, one of them with a     *)
(*               configured maximum definition level;                      *)
(*   SpecLoop  - the calls of SpecJoin, one pass of the outer loop of Next *)
(*               at a time;                                                *)
(*   SpecCache - the frontend's cachingWare over a cache, through requests *)
(*               and downstream responses;                                 *)
(*   SpecFetch - the attribute lists of the spans that a fetch returns.    *)
(***************************************************************************)
EXTENDS Integers, Sequences, FiniteSets, TLC

VARIABLES
    c,          \* the SyncIterator (its fields, iters.go 378-409)
    column,     \* ghost: the row groups handed to NewSyncIterator
    last,       \* ghost: the last call on the SyncIterator and what it returned
    hist        \* ghost: what the SyncIterator returned before that call: whether
                \* anything (any), the highest value index (pos), the results of
                \* the Next calls while no SeekTo was made (emitted, seeks)

syncVars == <<c, column, last, hist>>

VARIABLES
    node,       \* the JoinIterator, LeftJoinIterator or UnionIterator
    children,   \* the row numbers each child iterator yields, by child
    jlast,      \* ghost: the last call on the composite and what it returned
    jhist       \* ghost: the calls on the composite before that call

joinVars == <<node, children, jlast, jhist>>

VARIABLES
    dist        \* the distributor's accounting of one batch of rebatched traces:
                \* the replication factor, the tallies per trace, the replica
                \* responses processed so far (ghost) and the discard counts

VARIABLES
    rebatch,    \* one call of the rebatcher: its input batches, tenant and outputs
    limiter     \* the tenant's ingestion rate limiter and the last check made

distVars == <<dist, rebatch, limiter>>

VARIABLES
    tree,       \* a composite iterator over SyncIterators, its result pool, the
                \* number of Close calls made on it and, as ghosts, its last
                \* call and what the first Close left
    ctx         \* the context given to NewSyncIterator: whether it is cancelled
                \* and, as ghost, the iterator as it was then

lifeVars == <<tree, ctx>>

VARIABLES
    fcall       \* one call of a function that has no state of its own: the
                \* function, its arguments and what it returned

vars == <<c, column, last, hist, node, children, jlast, jhist, dist, rebatch, limiter,
          tree, ctx, fcall>>

-----------------------------------------------------------------------------
(* Bounds of the model.                                                    *)

\* rows of the column
MaxRows == 3
\* capacity of the value buffer (SyncIteratorOptBufferSize)
ReadSize == 2
\* deepest definition level that occurs in the modelled columns
MaxLevel == 1
\* the reslice threshold of seekWithinPage (iters.go 641 sets 1000); scaled
\* down so that the bounded pages hold more rows and values than it
magicThreshold == 1
\* the children of a composite iterator yield row numbers <<r, s>> with
\* r < JRows and s < JSubs - r
JRows == 2
JSubs == 2
\* largest replication factor of the distributor's accounting
MaxRepFactor == 3
\* spans of one request to the rebatcher, and distinct valid trace ids
MaxSpans == 3
NumTraceIds == 3
MaxRate == 3
MaxBurst == 3
MaxSize == 4

-----------------------------------------------------------------------------
(* Optional values: Go's nil is the empty sequence, a value x is <<x>>.     *)

Nil == <<>>
Some(x) == <<x>>
Get(o) == o[1]

MinOf(a, b) == IF a < b THEN a ELSE b

-----------------------------------------------------------------------------
(* Row-number algebra, iters.go 35-170.  A RowNumber is [8]int32; level l   *)
(* is index l+1 of the tuple.                                              *)

MaxDefinitionLevel == 7
MaxInt32 == 2147483647

MinInt32 == -MaxInt32 - 1

\* int32 arithmetic wraps: a + n for n >= 0, and a - b
Add32(a, n) ==
    IF a > MaxInt32 - n
    THEN MinInt32 + (n - (MaxInt32 - a) - 1)
    ELSE a + n

Sub32(a, b) ==
    IF b < 0 /\ a > MaxInt32 + b THEN ((a - MaxInt32 - 1) - b) - MaxInt32 - 1
    ELSE IF b > 0 /\ a < MinInt32 + b THEN ((a + MaxInt32 + 1) - b) + MaxInt32 + 1
    ELSE a - b

EmptyRowNumber == [i \in 1..8 |-> -1]

MaxRowNumber == [i \in 1..8 |-> IF i = 1 THEN MaxInt32 ELSE 0]

RECURSIVE compareFrom(_, _, _, _)
compareFrom(i, upTo, a, b) ==
    IF i > upTo THEN 0
    ELSE IF a[i + 1] < b[i + 1] THEN -1
    ELSE IF a[i + 1] > b[i + 1] THEN 1
    ELSE compareFrom(i + 1, upTo, a, b)

CompareRowNumbers(upToDefinitionLevel, a, b) ==
    compareFrom(0, upToDefinitionLevel, a, b)

EqualRowNumber(upToDefinitionLevel, a, b) ==
    \A i \in 0..upToDefinitionLevel : a[i + 1] = b[i + 1]

\* keeps one level fewer
TruncateRowNumberAbove(definitionLevelToKeep, t) ==
    [i \in 1..8 |-> IF i - 1 < definitionLevelToKeep THEN t[i] ELSE -1]

TruncateRowNumber(definitionLevelToKeep, t) ==
    [i \in 1..8 |-> IF i - 1 <= definitionLevelToKeep THEN t[i] ELSE -1]

Valid(t) == t[1] >= 0

\* RowNumber.Next: the three statements of the method applied in order
RowNumberNext(t, repetitionLevel, definitionLevel, maxDefinitionLevel) ==
    LET t1 == [t EXCEPT ![repetitionLevel + 1] = Add32(@, 1)]
        t2 == [i \in 1..8 |->
                 IF i - 1 >= repetitionLevel + 1 /\ i - 1 <= definitionLevel
                 THEN 0 ELSE t1[i]]
    IN  [i \in 1..8 |->
           IF i - 1 >= definitionLevel + 1 /\ i - 1 <= maxDefinitionLevel
           THEN -1 ELSE t2[i]]

Skip(t, numRows) ==
    [i \in 1..8 |-> IF i = 1 THEN Add32(t[1], numRows) ELSE -1]

RECURSIVE precedingFrom(_, _)
precedingFrom(t, i) ==
    IF i < 0 THEN t
    ELSE IF t[i + 1] = -1 THEN precedingFrom(t, i - 1)
    ELSE IF t[i + 1] = 0 THEN precedingFrom([t EXCEPT ![i + 1] = MaxInt32], i - 1)
    ELSE [t EXCEPT ![i + 1] = Sub32(@, 1)]

Preceding(t) == precedingFrom(t, 7)


-----------------------------------------------------------------------------
(* The column format as the iterator sees it (pq.RowGroup, pq.ColumnChunk,  *)
(* pq.Page, pq.Value).  A value carries its repetition and definition      *)
(* level, the decision KeepValue takes on it and, as its content, its      *)
(* index in the whole column.  A page and a chunk carry the decisions of   *)
(* KeepPage and KeepColumnChunk: predicates are pure.                      *)

RECURSIVE countRows(_, _)
countRows(values, n) ==
    IF n = 0 THEN 0
    ELSE countRows(values, n - 1) + (IF values[n].rep = 0 THEN 1 ELSE 0)

\* pq.Page.NumRows
PageNumRows(pg) == countRows(pg.values, Len(pg.values))

\* pq.Page.RepetitionLevels
RepetitionLevels(pg) == [i \in 1..Len(pg.values) |-> pg.values[i].rep]

\* index (from 1) of the value that starts row number `row` (from 0) of the
\* page, Len+1 when the page has no such row
RECURSIVE rowStart(_, _, _)
rowStart(values, row, i) ==
    IF i > Len(values) THEN i
    ELSE IF values[i].rep = 0
         THEN (IF row = 0 THEN i ELSE rowStart(values, row - 1, i + 1))
         ELSE rowStart(values, row, i + 1)

\* pq.Page.Slice(i, j): the rows i .. j-1 of the page
PageSlice(pg, i, j) ==
    LET from == rowStart(pg.values, i, 1)
        to   == rowStart(pg.values, j, 1) - 1
    IN  [pg EXCEPT !.values = SubSeq(pg.values, from, to)]

KeepColumnChunk(cc) == cc.keep
\* the answer of an iterator that does not ask
KeepPageUnasked(pg) == TRUE
KeepPage(pg) == pg.keep
KeepValue(v) == v.keep

-----------------------------------------------------------------------------
(* SyncIterator, iters.go 375-862.                                         *)

\* NewSyncIterator, iters.go 420-467: the bounds of row group i
RECURSIVE rowsBefore(_, _)
rowsBefore(rgs, i) ==
    IF i <= 1 THEN 0 ELSE rowsBefore(rgs, i - 1) + rgs[i - 1].numRows

\* every row group numbered from row 0
NewRgsMinNoOffset(rgs) ==
    [i \in 1..Len(rgs) |-> EmptyRowNumber]

NewRgsMin(rgs) ==
    [i \in 1..Len(rgs) |-> Skip(EmptyRowNumber, rowsBefore(rgs, i))]

\* the upper bound at the last row of the group
NewRgsMaxAtLastRow(rgs) ==
    [i \in 1..Len(rgs) |-> Skip(NewRgsMin(rgs)[i], rgs[i].numRows)]

NewRgsMax(rgs) ==
    [i \in 1..Len(rgs) |-> Skip(NewRgsMin(rgs)[i], rgs[i].numRows + 1)]

\* Ghost of the iterator, field held: the page handles it has obtained and
\* not released (pages), the column chunks it has created and not closed
\* (chunks), whether it released or closed one it did not hold (twice), and
\* the most pages and the most chunks it ever held at once (peakPages,
\* peakChunks), whether the row number was off the levels of a value
\* just read (offLevels), and whether it took a page from a chunk, read the
\* values of a page or asked KeepValue about a value of a chunk or a page that
\* the filter had rejected (offFilter).
NoHandles ==
    [pages |-> <<>>, chunks |-> <<>>, twice |-> FALSE, peakPages |-> 0, peakChunks |-> 0,
     offLevels |-> FALSE, offFilter |-> FALSE]

\* t is defined at the positions 0..definitionLevel and -1 at the positions
\* below them down to maxDefinitionLevel
Levelled(t, definitionLevel, maxDefinitionLevel) ==
    /\ \A l \in 0..definitionLevel : t[l + 1] >= 0
    /\ \A l \in (definitionLevel + 1)..maxDefinitionLevel : t[l + 1] = -1

\* s without the first occurrence of h
RECURSIVE RemoveOne(_, _)
RemoveOne(s, h) ==
    IF s = <<>> THEN <<>>
    ELSE IF Head(s) = h THEN Tail(s)
    ELSE <<Head(s)>> \o RemoveOne(Tail(s), h)

Holds(s, h) == \E i \in 1..Len(s) : s[i] = h

\* a page handle comes into being: ColumnChunkHelper.NextPage, pq.Page.Slice
obtained(it, pg) ==
    IF pg = Nil THEN it
    ELSE [it EXCEPT !.held.pages = Append(@, Get(pg)),
                    !.held.peakPages = IF Len(it.held.pages) + 1 > @
                                       THEN Len(it.held.pages) + 1 ELSE @]

\* the page is never released
pqReleaseNever(it, pg) == it

\* pq.Release(pg); releasing nil does nothing
pqRelease(it, pg) ==
    IF pg = Nil THEN it
    ELSE IF Holds(it.held.pages, Get(pg))
         THEN [it EXCEPT !.held.pages = RemoveOne(@, Get(pg))]
         ELSE [it EXCEPT !.held.twice = TRUE]

\* cc := &ColumnChunkHelper{...} for the row group that starts at min
ccNew(it, min) ==
    [it EXCEPT !.held.chunks = Append(@, min),
               !.held.peakChunks = IF Len(it.held.chunks) + 1 > @
                                   THEN Len(it.held.chunks) + 1 ELSE @]

\* ColumnChunkHelper.Close
ccClose(it, min) ==
    IF Holds(it.held.chunks, min)
    THEN [it EXCEPT !.held.chunks = RemoveOne(@, min)]
    ELSE [it EXCEPT !.held.twice = TRUE]

\* pq.Value{}
ZeroValue == [rep |-> 0, def |-> 0, keep |-> FALSE, id |-> 0]

\* A value buffer is a slice [arr, len]: arr is the whole array under it,
\* [0, cap), and len the number of its elements, [0, len).

\* syncIteratorPoolGet(capacity, len), iters.go 276-283; res is what
\* syncIteratorPool.Get() gave
syncIteratorPoolGet(res, capacity, len) ==
    [arr |-> IF Len(res.arr) < capacity THEN [i \in 1..capacity |-> ZeroValue]
             ELSE res.arr,
     len |-> len]

\* syncIteratorPoolPut(b), iters.go 285-290: `range b` runs over the len(b)
\* elements of the slice; the result is the slice that goes into the pool
syncIteratorPoolPut(b) ==
    [arr |-> [i \in 1..Len(b.arr) |-> IF i <= b.len THEN ZeroValue ELSE b.arr[i]],
     len |-> b.len]

NewSyncIterator(rgs, hasFilter, readSize, maxDefinitionLevel) ==
    [ rgs |-> rgs,
      rgsMin |-> NewRgsMin(rgs),
      rgsMax |-> NewRgsMax(rgs),
      readSize |-> readSize,
      hasFilter |-> hasFilter,
      curr |-> EmptyRowNumber,
      currRowGroup |-> Nil,
      currRowGroupMin |-> EmptyRowNumber,
      currRowGroupMax |-> EmptyRowNumber,
      currChunk |-> Nil,
      currPage |-> Nil,
      currPageMin |-> EmptyRowNumber,
      currPageMax |-> EmptyRowNumber,
      currValues |-> Nil,
      currBuf |-> Nil,
      currBufN |-> 0,
      currPageN |-> 0,
      at |-> [RowNumber |-> [i \in 1..8 |-> 0],
              Entries |-> <<[Key |-> "v", Value |-> 0]>>],
      maxDefinitionLevel |-> maxDefinitionLevel,
      held |-> NoHandles ]

\* SyncIterator.setPage, iters.go 790-821
setPage(it, pg) ==
    LET \* "Handle an outgoing page"
        out == IF it.currPage # Nil
               THEN [pqRelease(it, it.currPage) EXCEPT
                               !.curr = Preceding(it.currPageMax),
                               !.currPage = Nil]
               ELSE it
        \* "Reset value buffers"
        rst(o) == [o EXCEPT !.currValues = Nil,
                            !.currPageMax = EmptyRowNumber,
                            !.currPageMin = EmptyRowNumber,
                            !.currBufN = 0,
                            !.currPageN = 0]
        \* "If we don't immediately have a new incoming page then return
        \* the buffer to the pool"
        buf(r) == IF pg = Nil /\ r.currBuf # Nil
                  THEN [r EXCEPT !.currBuf = Nil]
                  ELSE r
        \* "Handle an incoming page"
        incoming(b) ==
              IF pg # Nil
                 THEN [b EXCEPT !.currPage = pg,
                                !.currPageMin = b.curr,
                                !.currPageMax = Skip(b.curr, PageNumRows(Get(pg)) + 1),
                                !.currValues = Some(Get(pg).values)]
                 ELSE b
    IN  incoming(buf(rst(out)))

\* SyncIterator.closeCurrRowGroup, iters.go 823-833
closeCurrRowGroup(it) ==
    LET cl == IF it.currChunk # Nil THEN ccClose(it, it.currRowGroupMin) ELSE it
    IN  setPage([cl EXCEPT !.currRowGroup = Nil,
                           !.currRowGroupMin = EmptyRowNumber,
                           !.currRowGroupMax = EmptyRowNumber,
                           !.currChunk = Nil], Nil)

\* SyncIterator.setRowGroup, iters.go 781-788
setRowGroup(it, rg, min, max, cc) ==
    LET cl == closeCurrRowGroup(it)
    IN  [cl EXCEPT !.curr = min,
                   !.currRowGroup = Some([numRows |-> rg.numRows]),
                   !.currRowGroupMin = min,
                   !.currRowGroupMax = max,
                   !.currChunk = Some(cc)]

\* SyncIterator.popRowGroup, iters.go 522-536
popRowGroup(it) ==
    IF Len(it.rgs) = 0
    THEN [it |-> it, rg |-> Nil, min |-> EmptyRowNumber, max |-> EmptyRowNumber]
    ELSE [it  |-> [it EXCEPT !.rgs = Tail(it.rgs),
                             !.rgsMin = Tail(it.rgsMin),
                             !.rgsMax = Tail(it.rgsMax)],
          rg  |-> Some(it.rgs[1]),
          min |-> it.rgsMin[1],
          max |-> it.rgsMax[1]]

\* ColumnChunkHelper.NextPage: the next page of the current chunk, nil at its end
NextPage(it) ==
    LET cc == Get(it.currChunk)
    IN  IF Len(cc.pages) = 0
        THEN [it |-> it, pg |-> Nil]
        ELSE [it |-> obtained([it EXCEPT !.currChunk =
                                   Some([cc EXCEPT !.pages = Tail(cc.pages)]),
                                         !.held.offFilter = @ \/ ~cc.keep],
                              Some(cc.pages[1])),
              pg |-> Some(cc.pages[1])]

\* SyncIterator.next, iters.go 707-779.  `continue` restarts next; leaving an
\* if-block re-enters the loop body below that block, which restarting does
\* too, as the block's condition is then false.
RECURSIVE next(_), consume(_)
next(it) ==
    IF it.currRowGroup = Nil THEN
        LET rowGroup(p) ==
                IF p.rg = Nil
                THEN [it |-> it, rn |-> EmptyRowNumber, v |-> Nil]
                ELSE IF it.hasFilter /\ ~KeepColumnChunk(Get(p.rg).cc)
                     THEN next(ccClose(ccNew(p.it, p.min), p.min))
                     ELSE next(setRowGroup(ccNew(p.it, p.min), Get(p.rg), p.min, p.max,
                                           Get(p.rg).cc))
        IN  rowGroup(popRowGroup(it))
    ELSE IF it.currPage = Nil THEN
        LET page(n) ==
                IF n.pg = Nil
                THEN next(closeCurrRowGroup(n.it))
                ELSE IF it.hasFilter /\ ~KeepPage(Get(n.pg))
                     THEN next(pqRelease([n.it EXCEPT !.curr =
                                            Skip(n.it.curr, PageNumRows(Get(n.pg)))],
                                         n.pg))
                     ELSE next(setPage(n.it, n.pg))
        IN  page(NextPage(it))
    ELSE
        LET b == IF it.currBuf = Nil THEN [it EXCEPT !.currBuf = Some(<<>>)] ELSE it
        IN  IF b.currBufN >= Len(Get(b.currBuf)) \/ Len(Get(b.currBuf)) = 0
            THEN LET rest == Get(b.currValues)
                     n    == MinOf(b.readSize, Len(rest))
                     r    == [b EXCEPT !.currBuf = Some(SubSeq(rest, 1, n)),
                                       !.currValues = Some(SubSeq(rest, n + 1, Len(rest))),
                                       !.currBufN = 0,
                                       !.held.offFilter = @ \/ ~Get(b.currPage).keep]
                 IN  IF n = 0 THEN next(setPage(r, Nil)) ELSE consume(r)
            ELSE consume(b)

\* consume without consulting KeepValue
consumeUnfiltered(it) ==
    IF it.currBufN < Len(Get(it.currBuf)) THEN
        LET v == Get(it.currBuf)[it.currBufN + 1]
            t == RowNumberNext(it.curr, v.rep, v.def, it.maxDefinitionLevel)
            a == [it EXCEPT !.curr = t,
                            !.currBufN = @ + 1,
                            !.currPageN = @ + 1,
                            !.held.offLevels =
                                @ \/ ~Levelled(t, v.def, it.maxDefinitionLevel)]
        IN  [it |-> a, rn |-> a.curr, v |-> Some(v)]
    ELSE next(it)

\* the loop "Consume current buffer until empty", iters.go 762-777
consume(it) ==
    IF it.currBufN < Len(Get(it.currBuf)) THEN
        LET v == Get(it.currBuf)[it.currBufN + 1]
            t == RowNumberNext(it.curr, v.rep, v.def, it.maxDefinitionLevel)
            a == [it EXCEPT !.curr = t,
                            !.currBufN = @ + 1,
                            !.currPageN = @ + 1,
                            !.held.offLevels =
                                @ \/ ~Levelled(t, v.def, it.maxDefinitionLevel),
                            !.held.offFilter =
                                @ \/ ( /\ it.hasFilter
                                       /\ ~(Get(it.currChunk).keep /\ Get(it.currPage).keep) )]
        IN  IF it.hasFilter /\ ~KeepValue(v)
            THEN consume(a)
            ELSE [it |-> a, rn |-> a.curr, v |-> Some(v)]
    ELSE next(it)

\* SyncIterator.makeResult, iters.go 835-852
makeResult(it, t, v) ==
    [it EXCEPT !.at = [RowNumber |-> t,
                       Entries |-> <<[Key |-> "v", Value |-> Get(v).id]>>]]

\* SyncIterator.Next, iters.go 477-486
SyncNext(it) ==
    LET result(r) ==
            IF ~Valid(r.rn)
            THEN [it |-> r.it, res |-> Nil]
            ELSE LET m == makeResult(r.it, r.rn, r.v)
                 IN  [it |-> m, res |-> Some(m.at)]
    IN  result(next(it))

\* SyncIterator.Close, iters.go 854-862
SyncClose(it) == closeCurrRowGroup(it)


\* SyncIterator.seekRowGroup, iters.go 540-568
RECURSIVE seekRowGroupLoop(_, _, _)
seekRowGroupLoop(it, seekTo, definitionLevel) ==
    IF it.currRowGroup # Nil THEN [it |-> it, done |-> FALSE]
    ELSE LET rowGroup(p) ==
                 IF p.rg = Nil
                 THEN [it |-> it, done |-> TRUE]
                 ELSE IF CompareRowNumbers(definitionLevel, seekTo, p.max) # -1
                      THEN seekRowGroupLoop(p.it, seekTo, definitionLevel)
                      ELSE IF it.hasFilter /\ ~KeepColumnChunk(Get(p.rg).cc)
                           THEN seekRowGroupLoop(ccClose(ccNew(p.it, p.min), p.min),
                                                 seekTo, definitionLevel)
                           ELSE seekRowGroupLoop(
                                    setRowGroup(ccNew(p.it, p.min), Get(p.rg), p.min,
                                                p.max, Get(p.rg).cc),
                                    seekTo, definitionLevel)
         IN  rowGroup(popRowGroup(it))

seekRowGroup(it, seekTo, definitionLevel) ==
    seekRowGroupLoop(
        IF it.currRowGroup # Nil
           /\ CompareRowNumbers(definitionLevel, seekTo, it.currRowGroupMax) >= 0
        THEN closeCurrRowGroup(it)
        ELSE it,
        seekTo, definitionLevel)

\* SyncIterator.seekPages, iters.go 572-630
RECURSIVE seekPagesLoop(_, _, _)
seekPagesLoop(it, seekTo, definitionLevel) ==
    IF it.currPage # Nil THEN [it |-> it, done |-> FALSE]
    ELSE LET page(n) ==
                 IF n.pg = Nil
                 THEN [it |-> closeCurrRowGroup(n.it), done |-> TRUE]
                 ELSE LET numRows == PageNumRows(Get(n.pg))
                          newRN   == Skip(n.it.curr, numRows + 1)
                          skipped == pqRelease([n.it EXCEPT !.curr =
                                                  Skip(n.it.curr, numRows)],
                                               n.pg)
                      IN  IF CompareRowNumbers(definitionLevel, seekTo, newRN) >= 0
                          THEN seekPagesLoop(skipped, seekTo, definitionLevel)
                          ELSE IF it.hasFilter /\ ~KeepPage(Get(n.pg))
                               THEN seekPagesLoop(skipped, seekTo, definitionLevel)
                               ELSE seekPagesLoop(setPage(n.it, n.pg), seekTo,
                                                  definitionLevel)
         IN  page(NextPage(it))

seekPages(it, seekTo, definitionLevel) ==
    seekPagesLoop(
        IF it.currPage # Nil
           /\ CompareRowNumbers(definitionLevel, seekTo, it.currPageMax) >= 0
        THEN setPage(it, Nil)
        ELSE it,
        seekTo, definitionLevel)

\* the loop of seekWithinPage that counts the Next()s needed, iters.go 654-669
RECURSIVE countNexts(_, _, _, _)
countNexts(replvls, i, nextsRequired, rowSkipRelative) ==
    IF i >= Len(replvls) THEN FALSE
    ELSE IF nextsRequired + 1 > magicThreshold THEN TRUE
    ELSE IF replvls[i + 1] = 0
         THEN (IF rowSkipRelative <= 1
               THEN FALSE
               ELSE countNexts(replvls, i + 1, nextsRequired + 1, rowSkipRelative - 1))
         ELSE countNexts(replvls, i + 1, nextsRequired + 1, rowSkipRelative)

\* SyncIterator.seekWithinPage, iters.go 635-700
seekWithinPage(it, to, definitionLevel) ==
    LET rowSkipRelative == Sub32(to[1], it.curr[1])
        shouldSkip ==
            IF definitionLevel = 0
            THEN rowSkipRelative > magicThreshold
            ELSE countNexts(RepetitionLevels(Get(it.currPage)), it.currPageN, 0,
                            rowSkipRelative)
        rowSkip == Sub32(to[1], it.currPageMin[1])
    IN  IF rowSkipRelative = 0 THEN it
        ELSE IF ~shouldSkip THEN it
        ELSE IF rowSkip < 1 THEN it
        ELSE IF rowSkip > PageNumRows(Get(it.currPage)) THEN it
        ELSE LET pg   == PageSlice(Get(it.currPage), rowSkip - 1,
                                   PageNumRows(Get(it.currPage)))
                 curr == Preceding(TruncateRowNumber(0, to))
             IN  [pqRelease(obtained(it, Some(pg)), it.currPage) EXCEPT
                            !.curr = curr,
                            !.currPage = Some(pg),
                            !.currPageMin = curr,
                            !.currValues = Some(pg.values),
                            !.currPageN = 0,
                            !.currBuf = Nil]

\* the scan that ends SyncIterator.SeekTo, iters.go 507-519
RECURSIVE seekScan(_, _, _)
seekScan(it, to, definitionLevel) ==
    LET scan(r) ==
            IF ~Valid(r.rn)
            THEN [it |-> r.it, res |-> Nil]
            ELSE IF CompareRowNumbers(definitionLevel, r.rn, to) >= 0
                 THEN LET m == makeResult(r.it, r.rn, r.v)
                      IN  [it |-> m, res |-> Some(m.at)]
                 ELSE seekScan(r.it, to, definitionLevel)
    IN  scan(next(it))

\* SyncIterator.SeekTo, iters.go 490-520
SyncSeekTo(it, to, definitionLevel) ==
    LET inPage(p) ==
            IF p.done
            THEN [it |-> p.it, res |-> Nil]
            ELSE seekScan(seekWithinPage(p.it, to, definitionLevel),
                          to, definitionLevel)
        inRowGroup(g) ==
            IF g.done
            THEN [it |-> g.it, res |-> Nil]
            ELSE inPage(seekPages(g.it, to, definitionLevel))
    IN  inRowGroup(seekRowGroup(it, to, definitionLevel))


-----------------------------------------------------------------------------
(* The columns of SpecSync.  A column is a sequence of rows; a row is one   *)
(* of the shapes below (its first value has repetition level 0).  After    *)
(* each row the writer continues the page (0), starts a new page (1) or    *)
(* starts a new row group (2).                                             *)

Val(rep, def, keep) == [rep |-> rep, def |-> def, keep |-> keep, id |-> 0]

RowShapes ==
    << <<Val(0, 1, TRUE)>>,
       <<Val(0, 1, TRUE), Val(1, 1, FALSE), Val(1, 1, TRUE)>>,
       <<Val(0, 0, FALSE)>> >>

\* the values of rows[1..n] in column order, each with its index as content
RECURSIVE FlatValues(_, _)
FlatValues(rows, n) ==
    IF n = 0 THEN <<>>
    ELSE LET before == FlatValues(rows, n - 1)
             shape  == RowShapes[rows[n]]
         IN  before \o [k \in 1..Len(shape) |->
                          [shape[k] EXCEPT !.id = Len(before) + k]]

\* the row groups written for rows[i..n]; vals, pages: the open page and the
\* open row group so far
RECURSIVE BuildRowGroups(_, _, _, _, _, _, _)
BuildRowGroups(rows, cut, pk, ck, i, vals, pages) ==
    IF i > Len(rows) THEN <<>>
    ELSE LET before == FlatValues(rows, i - 1)
             shape  == RowShapes[rows[i]]
             vs     == vals \o [k \in 1..Len(shape) |->
                                  [shape[k] EXCEPT !.id = Len(before) + k]]
             pgs    == IF cut[i] >= 1
                       THEN Append(pages, [values |-> vs, keep |-> pk[i]])
                       ELSE pages
         IN  IF cut[i] = 2
             THEN <<[numRows |-> countRows(FlatValues(rows, i), Len(FlatValues(rows, i)))
                                 - (IF pgs = <<>> THEN 0
                                    ELSE countRows(FlatValues(rows, i), pgs[1].values[1].id - 1)),
                     cc |-> [keep |-> ck[i], pages |-> pgs]]>>
                  \o BuildRowGroups(rows, cut, pk, ck, i + 1, <<>>, <<>>)
             ELSE BuildRowGroups(rows, cut, pk, ck, i + 1,
                                 IF cut[i] = 1 THEN <<>> ELSE vs, pgs)

Columns ==
    UNION { { BuildRowGroups(rows, cut, pk, ck, 1, <<>>, <<>>) :
                <<rows, cut, pk, ck>> \in
                  { q \in [1..n -> 1..Len(RowShapes)] \X [1..n -> 0..2]
                          \X [1..n -> BOOLEAN] \X [1..n -> BOOLEAN] :
                      /\ q[2][n] = 2
                      /\ \A i \in 1..n : q[2][i] = 0 => q[3][i]
                      /\ \A i \in 1..n : q[2][i] < 2 => q[4][i]
                      \* KeepPage is never asked about a page of a rejected chunk
                      /\ \A i \in 1..n : \A j \in i..n :
                            (q[2][j] = 2 /\ ~q[4][j] /\ \A k \in i..(j - 1) : q[2][k] < 2)
                            => q[3][i] } } :
            n \in 1..MaxRows }

\* the values of a column in column order
RECURSIVE ConcatPages(_)
ConcatPages(pages) ==
    IF pages = <<>> THEN <<>> ELSE pages[1].values \o ConcatPages(Tail(pages))

RECURSIVE ColumnValues(_)
ColumnValues(rgs) ==
    IF rgs = <<>> THEN <<>> ELSE ConcatPages(rgs[1].cc.pages) \o ColumnValues(Tail(rgs))

\* no predicate rejects anything in the column
AllKept(rgs) ==
    /\ \A g \in 1..Len(rgs) : rgs[g].cc.keep
    /\ \A g \in 1..Len(rgs) : \A p \in 1..Len(rgs[g].cc.pages) : rgs[g].cc.pages[p].keep

\* the targets SeekTo is called with
SeekLevels == 0..MaxLevel

SeekTargets(d) ==
    { [i \in 1..8 |-> IF i = 1 THEN r ELSE IF i = 2 THEN s ELSE -1] :
        r \in 0..MaxRows, s \in IF d = 0 THEN {-1} ELSE {-1, 1} }

-----------------------------------------------------------------------------
(* SpecSync                                                                *)

\* the ghost history once the call recorded in `last` is in the past
Past ==
    IF last.res = Nil THEN hist
    ELSE [hist EXCEPT !.any = TRUE,
                      !.pos = IF Get(last.res).Entries[1].Value > @
                              THEN Get(last.res).Entries[1].Value ELSE @,
                      !.emitted = IF hist.seeks \/ last.op = "SeekTo" THEN <<>>
                                  ELSE Append(@, Get(last.res))]

InitSync ==
    /\ column \in Columns
    /\ \E hasFilter \in BOOLEAN :
         /\ (~hasFilter => AllKept(column))
         /\ c = NewSyncIterator(column, hasFilter, ReadSize, MaxDefinitionLevel)
    /\ last = [op |-> "New", to |-> EmptyRowNumber, d |-> 0, res |-> Nil]
    /\ hist = [any |-> FALSE, pos |-> 0, emitted |-> <<>>, seeks |-> FALSE]
    /\ node = Nil /\ children = Nil /\ jlast = Nil /\ jhist = Nil
    /\ dist = Nil /\ rebatch = Nil /\ limiter = Nil
    /\ tree = Nil /\ ctx = Nil /\ fcall = Nil

Next ==
    LET r == SyncNext(c)
    IN  /\ c' = r.it
        /\ last' = [op |-> "Next", to |-> EmptyRowNumber, d |-> 0, res |-> r.res]
        /\ hist' = Past
        /\ UNCHANGED column
        /\ UNCHANGED <<joinVars, distVars, lifeVars, fcall>>

SeekTo ==
    \E d \in SeekLevels : \E to \in SeekTargets(d) :
        LET r == SyncSeekTo(c, to, d)
        IN  /\ c' = r.it
            /\ last' = [op |-> "SeekTo", to |-> to, d |-> d, res |-> r.res]
            /\ hist' = [Past EXCEPT !.seeks = TRUE, !.emitted = <<>>]
            /\ UNCHANGED column
            /\ UNCHANGED <<joinVars, distVars, lifeVars, fcall>>

NextSync == Next \/ SeekTo

SpecSync == InitSync /\ [][NextSync]_vars


-----------------------------------------------------------------------------
(* Reference semantics of a column, independent of its layout.             *)

Flat == ColumnValues(column)

\* the values KeepColumnChunk, KeepPage and KeepValue all accept
AcceptedIds ==
    { v.id : v \in
        UNION { UNION { { column[g].cc.pages[p].values[k] :
                            k \in { k \in 1..Len(column[g].cc.pages[p].values) :
                                      ~c.hasFilter
                                      \/ ( /\ column[g].cc.keep
                                           /\ column[g].cc.pages[p].keep
                                           /\ column[g].cc.pages[p].values[k].keep ) } } :
                        p \in 1..Len(column[g].cc.pages) } :
                g \in 1..Len(column) } }

\* the number of rows that precede the row of value k in the whole column
RowOf(k) == countRows(Flat, k) - 1

\* the row number of value k: the Dremel numbering of the whole column
RECURSIVE RefRowNumber(_)
RefRowNumber(k) ==
    IF k = 0 THEN EmptyRowNumber
    ELSE RowNumberNext(RefRowNumber(k - 1), Flat[k].rep, Flat[k].def, MaxDefinitionLevel)

SetMin(S) == CHOOSE x \in S : \A y \in S : x <= y

\* the accepted values in column order
RECURSIVE AcceptedSeq(_)
AcceptedSeq(k) ==
    IF k = 0 THEN <<>>
    ELSE IF k \in AcceptedIds
         THEN Append(AcceptedSeq(k - 1), k)
         ELSE AcceptedSeq(k - 1)

ResultId(res) == Get(res).Entries[1].Value
ResultRow(res) == Get(res).RowNumber

-----------------------------------------------------------------------------
(* Claims about the SyncIterator.                                          *)

\* C1: SeekTo(r, d) returns the first value not yet returned that the
\* predicate accepts and whose row number is >= r at level d, and None only
\* when no such value remains in the current or any later row group.
C1_SeekToFirstMatch ==
    last.op = "SeekTo" =>
        LET cand == { k \in AcceptedIds :
                        /\ k > hist.pos
                        /\ CompareRowNumbers(last.d, RefRowNumber(k), last.to) >= 0 }
        IN  IF cand = {}
            THEN last.res = Nil
            ELSE /\ last.res # Nil
                 /\ ResultId(last.res) = SetMin(cand)
                 /\ ResultRow(last.res) = RefRowNumber(SetMin(cand))

\* C3: the results one SyncIterator returns over any sequence of Next and
\* SeekTo calls are strictly increasing under Compare at level 7.
C3_SyncStrictlyIncreasing ==
    [][ (hist'.any /\ last'.res # Nil)
          => CompareRowNumbers(7, c.at.RowNumber, ResultRow(last'.res)) = -1 ]_vars

\* C4: calling Next until None emits exactly one result for every accepted
\* value, with its row number, and none for any other value.
C4_NextEmitsAccepted ==
    (last.op = "Next" /\ last.res = Nil /\ ~hist.seeks) =>
        LET acc == AcceptedSeq(Len(Flat))
        IN  /\ Len(hist.emitted) = Len(acc)
            /\ \A i \in 1..Len(acc) :
                 /\ hist.emitted[i].Entries[1].Value = acc[i]
                 /\ hist.emitted[i].RowNumber = RefRowNumber(acc[i])

C4_Witness ==
    /\ last.op = "Next" /\ last.res = Nil /\ ~hist.seeks
    /\ c.hasFilter
    /\ Len(hist.emitted) >= 2
    /\ \E g \in 1..Len(column) : ~column[g].cc.keep
    /\ \E g \in 1..Len(column) :
         column[g].cc.keep /\ \E p \in 1..Len(column[g].cc.pages) : ~column[g].cc.pages[p].keep

\* C5: position 0 of every reported row number is the number of rows that
\* precede the value's row in the whole column, whatever the split into row
\* groups and pages and whatever was skipped.
C5_RowNumberIgnoresLayout ==
    last.res # Nil => ResultRow(last.res)[1] = RowOf(ResultId(last.res))

C5_Witness ==
    /\ last.op = "SeekTo" /\ last.res # Nil
    /\ Len(column) >= 2
    /\ c.hasFilter /\ ~column[1].cc.keep
    /\ ResultRow(last.res)[1] >= 2

-----------------------------------------------------------------------------
(* Composite iterators, iters.go 864-1413.  A child is any Iterator         *)
(* (iters.go 259-269): it yields its results in order, Next returns the     *)
(* next one or nil when done, SeekTo skips results until one is >= the      *)
(* target at the given level.  A child result carries one entry whose Key   *)
(* names the child and whose Value is the index of the result in the child. *)
(* OtherEntries are appended exactly as Entries are and are left out.       *)

\* IteratorResult.Reset with the row number assignment that follows it
ResultReset(rowNumber) == [RowNumber |-> rowNumber, Entries |-> <<>>]

\* IteratorResult.Append
ResultAppend(r, rr) == [r EXCEPT !.Entries = @ \o rr.Entries]

\* the i-th result of child id
ChildAt(id, i) ==
    [RowNumber |-> children[id][i], Entries |-> << [Key |-> id, Value |-> i] >>]

\* where a child's list holds ErrRow the read of its next result fails: the
\* child returns no result and an error, and stays where it is
ErrRow == [i \in 1..8 |-> -2]

\* a new child iterator; failed: it has returned an error in the current call
NewChild(id) == [id |-> id, pos |-> 0, failed |-> FALSE]

\* a child that is a SyncIterator
NewSyncChild(id, it) == [id |-> id, it |-> it, failed |-> FALSE]

IsSync(iter) == "it" \in DOMAIN iter

IsComposite(iter) == "kind" \in DOMAIN iter

\* Next of a child that yields the list children[id]
listNext(iter) ==
    IF iter.pos < Len(children[iter.id])
    THEN IF children[iter.id][iter.pos + 1] = ErrRow
         THEN [iter |-> [iter EXCEPT !.failed = TRUE], res |-> Nil, err |-> Some("io")]
         ELSE [iter |-> [iter EXCEPT !.pos = @ + 1],
               res  |-> Some(ChildAt(iter.id, iter.pos + 1)),
               err  |-> Nil]
    ELSE [iter |-> iter, res |-> Nil, err |-> Nil]

\* SeekTo of a child that yields the list children[id]
RECURSIVE listSeekTo(_, _, _)
listSeekTo(iter, t, d) ==
    LET n == listNext(iter)
    IN  IF n.err # Nil \/ n.res = Nil
           \/ CompareRowNumbers(d, Get(n.res).RowNumber, t) >= 0
        THEN n
        ELSE listSeekTo(n.iter, t, d)

\* what a SyncIterator returned, as what its parent gets
ofSync(iter, r) == [iter |-> [iter EXCEPT !.it = r.it], res |-> r.res, err |-> Nil]

\* what a composite returned, as what its parent gets
ofComposite(r) == [iter |-> r.it, res |-> r.res, err |-> r.err]

\* The Iterator interface, iters.go 259-269: the method Next or SeekTo of
\* the iterator behind iter
RECURSIVE Iterator(_, _, _, _), JoinNext(_), JoinSeekTo(_, _, _)
RECURSIVE LeftJoinNext(_), LeftJoinSeekTo(_, _, _), UnionNext(_), UnionSeekTo(_, _, _)
Iterator(iter, method, t, d) ==
    IF IsComposite(iter)
    THEN ofComposite(
           IF iter.kind = "join"
           THEN IF method = "Next" THEN JoinNext(iter) ELSE JoinSeekTo(iter, t, d)
           ELSE IF iter.kind = "leftjoin"
           THEN IF method = "Next" THEN LeftJoinNext(iter) ELSE LeftJoinSeekTo(iter, t, d)
           ELSE IF method = "Next" THEN UnionNext(iter) ELSE UnionSeekTo(iter, t, d))
    ELSE IF IsSync(iter)
    THEN ofSync(iter, IF method = "Next" THEN SyncNext(iter.it)
                      ELSE SyncSeekTo(iter.it, t, d))
    ELSE IF method = "Next" THEN listNext(iter) ELSE listSeekTo(iter, t, d)

\* Iterator.Next of a child
IterNext(iter) == Iterator(iter, "Next", EmptyRowNumber, 0)

\* Iterator.SeekTo of a child
IterSeekTo(iter, t, d) == Iterator(iter, "SeekTo", t, d)

\* Iterator.Close of a child
IterClose(iter) ==
    IF IsSync(iter) THEN [iter EXCEPT !.it = SyncClose(@)] ELSE iter

\* j.pool.Release(r), iters.go 1037 and 1271; pool is the sequence of the
\* results handed to Release, each by the name of the field that holds it
poolRelease(pool, r) == Append(pool, r)

\* GroupPredicate.KeepGroup of a predicate that, like KeyValueGroupPredicate,
\* reads the entries of one key and wants at least n of them
KeepGroup(pred, group) ==
    Cardinality({ i \in 1..Len(group.Entries) : group.Entries[i].Key = pred.key })
        >= pred.n

\* an "if" in place of the "for": at most one result of the child collected
collectOnce(iter, peek, result, rowNumber, d) ==
    IF peek # Nil /\ EqualRowNumber(d, Get(peek).RowNumber, rowNumber)
    THEN LET advanced(n) ==
                 [iter |-> n.iter, peek |-> n.res,
                  result |-> ResultAppend(result, Get(peek)), err |-> n.err]
         IN  advanced(IterNext(iter))
    ELSE [iter |-> iter, peek |-> peek, result |-> result, err |-> Nil]

\* the peeked result is appended and the child is left where it is
collectInPlace(iter, peek, result, rowNumber, d) ==
    IF peek # Nil /\ EqualRowNumber(d, Get(peek).RowNumber, rowNumber)
    THEN [iter |-> iter, peek |-> peek, result |-> ResultAppend(result, Get(peek)),
          err |-> Nil]
    ELSE [iter |-> iter, peek |-> peek, result |-> result, err |-> Nil]

\* the inner loop of collect for one child: append the peeked result and
\* advance while it is in the group of rowNumber
RECURSIVE collectWhileEqual(_, _, _, _, _)
collectWhileEqual(iter, peek, result, rowNumber, d) ==
    IF peek # Nil /\ EqualRowNumber(d, Get(peek).RowNumber, rowNumber)
    THEN LET advanced(n) ==
                 IF n.err # Nil
                 THEN [iter |-> n.iter, peek |-> n.res,
                       result |-> ResultAppend(result, Get(peek)), err |-> n.err]
                 ELSE collectWhileEqual(n.iter, n.res, ResultAppend(result, Get(peek)),
                                        rowNumber, d)
         IN  advanced(IterNext(iter))
    ELSE [iter |-> iter, peek |-> peek, result |-> result, err |-> Nil]

\* swap two slots of a slice
Swap(s, a, b) == [s EXCEPT ![a] = s[b], ![b] = s[a]]

-----------------------------------------------------------------------------
(* JoinIterator, iters.go 867-1038.  Slot i of the model is index i-1.      *)
(* The field err of a composite is the err variable of the method running: *)
(* it is nil between calls.                                                *)

NewJoinIterator(definitionLevel, ids, pred) ==
    [kind            |-> "join",
     definitionLevel |-> definitionLevel,
     iters           |-> [i \in 1..Len(ids) |-> NewChild(ids[i])],
     peeks           |-> [i \in 1..Len(ids) |-> Nil],
     pred            |-> pred,
     at              |-> ResultReset(EmptyRowNumber),
     err             |-> Nil]

\* the composite whose child in slot i has returned n
joinPeeked(jn, i, n) ==
    [jn EXCEPT !.iters[i] = n.iter, !.peeks[i] = n.res, !.err = n.err]

joinPeek(jn, i) ==
    IF jn.peeks[i] = Nil
    THEN joinPeeked(jn, i, IterNext(jn.iters[i]))
    ELSE jn

\* the child is left where it is
joinSeekNone(jn, i, t0, d) == jn

joinSeek(jn, i, t0, d) ==
    LET seekTo(t) ==
            IF jn.peeks[i] = Nil
               \/ CompareRowNumbers(d, Get(jn.peeks[i]).RowNumber, t) = -1
            THEN joinPeeked(jn, i, IterSeekTo(jn.iters[i], t, d))
            ELSE jn
    IN  seekTo(TruncateRowNumber(d, t0))

RECURSIVE joinSeekAllLoop(_, _, _, _)
joinSeekAllLoop(jn, i, t, d) ==
    IF i > Len(jn.iters) THEN jn
    ELSE IF jn.peeks[i] = Nil \/ CompareRowNumbers(d, Get(jn.peeks[i]).RowNumber, t) = -1
         THEN LET sought(j1) ==
                      IF j1.err # Nil THEN j1
                      ELSE IF j1.peeks[i] = Nil THEN j1
                      ELSE joinSeekAllLoop(j1, i + 1, t, d)
              IN  sought(joinPeeked(jn, i, IterSeekTo(jn.iters[i], t, d)))
         ELSE joinSeekAllLoop(jn, i + 1, t, d)

joinSeekAll(jn, t, d) == joinSeekAllLoop(jn, 1, TruncateRowNumber(d, t), d)

RECURSIVE joinCollectLoop(_, _, _)
joinCollectLoop(jn, i, rowNumber) ==
    IF i > Len(jn.iters) THEN jn
    ELSE LET collected(r) ==
                 LET j1 == [jn EXCEPT !.iters[i] = r.iter, !.peeks[i] = r.peek,
                                      !.at = r.result, !.err = r.err]
                 IN  IF r.err # Nil THEN j1 ELSE joinCollectLoop(j1, i + 1, rowNumber)
         IN  collected(collectWhileEqual(jn.iters[i], jn.peeks[i], jn.at, rowNumber,
                                         jn.definitionLevel))

joinCollect(jn, rowNumber) ==
    joinCollectLoop([jn EXCEPT !.at = ResultReset(rowNumber)], 1, rowNumber)

\* the first-pass loop of Next: peek every child, stop at one without result
RECURSIVE joinPeekLoop(_, _)
joinPeekLoop(jn, i) ==
    IF i > Len(jn.iters) THEN [it |-> jn, done |-> FALSE]
    ELSE LET peeked(j1) ==
                 IF j1.err # Nil THEN [it |-> j1, done |-> TRUE]
                 ELSE IF j1.peeks[i] = Nil THEN [it |-> j1, done |-> TRUE]
                 ELSE joinPeekLoop(j1, i + 1)
         IN  peeked(joinPeek(jn, i))

\* the loop of Next over children 2 to N: "err" when a seek failed, "nil"
\* when a child is exhausted, "swap" when one was swapped to the top, "match"
\* when all point at the same row
RECURSIVE joinMatchLoop(_, _)
joinMatchLoop(jn, i) ==
    IF i > Len(jn.iters) THEN [it |-> jn, out |-> "match"]
    ELSE LET sought(j1) ==
                 IF j1.err # Nil THEN [it |-> j1, out |-> "err"]
                 ELSE IF j1.peeks[i] = Nil THEN [it |-> j1, out |-> "nil"]
                 ELSE IF CompareRowNumbers(j1.definitionLevel,
                                           Get(j1.peeks[i]).RowNumber,
                                           Get(j1.peeks[1]).RowNumber) = 1
                      THEN [it  |-> [j1 EXCEPT !.iters = Swap(@, 1, i),
                                               !.peeks = Swap(@, 1, i)],
                            out |-> "swap"]
                      ELSE joinMatchLoop(j1, i + 1)
         IN  sought(joinSeek(jn, i, Get(jn.peeks[1]).RowNumber, jn.definitionLevel))

\* what one pass of the outer loop of Next comes to: a return of res and err,
\* or "continue outer" (again)
Returns(it, res, err) == [it |-> it, res |-> res, err |-> err, again |-> FALSE]

ContinueOuter(it) == [it |-> it, res |-> Nil, err |-> Nil, again |-> TRUE]

\* one pass of the outer loop of JoinIterator.Next, iters.go 904-960
JoinPass(jn) ==
    LET collected(r) ==
            IF r.err # Nil THEN Returns(r, Nil, r.err)
            ELSE IF r.pred = Nil \/ KeepGroup(Get(r.pred), r.at)
            THEN Returns(r, Some(r.at), Nil)
            ELSE ContinueOuter(r)
        matched(m) ==
            IF m.out = "err" THEN Returns(m.it, Nil, m.it.err)
            ELSE IF m.out = "nil" THEN Returns(m.it, Nil, Nil)
            ELSE IF m.out = "swap" THEN ContinueOuter(m.it)
            ELSE collected(joinCollect(m.it, Get(m.it.peeks[1]).RowNumber))
        peeked(p) ==
            IF p.it.err # Nil THEN Returns(p.it, Nil, p.it.err)
            ELSE IF p.done THEN Returns(p.it, Nil, Nil)
            ELSE matched(joinMatchLoop(p.it, 2))
    IN  peeked(IF jn.peeks[1] = Nil THEN joinPeekLoop(jn, 1)
               ELSE [it |-> jn, done |-> FALSE])

JoinNext(jn) ==
    LET passed(p) ==
            IF p.again THEN JoinNext(p.it)
            ELSE [it |-> p.it, res |-> p.res, err |-> p.err]
    IN  passed(JoinPass(jn))

JoinSeekTo(jn, t, d) ==
    LET sought(s) ==
            IF s.err # Nil THEN [it |-> s, res |-> Nil, err |-> s.err]
            ELSE JoinNext(s)
    IN  sought(joinSeekAll(jn, t, d))

\* JoinIterator.Close, iters.go 1033-1038
JoinClose(jn, pool) ==
    [it   |-> [jn EXCEPT !.iters = [i \in 1..Len(@) |-> IterClose(@[i])]],
     pool |-> poolRelease(pool, "j.at")]

-----------------------------------------------------------------------------
(* LeftJoinIterator, iters.go 1044-1272.                                    *)

leftJoinIterator(definitionLevel, requiredIds, optionalIds, pred) ==
    [kind            |-> "leftjoin",
     definitionLevel |-> definitionLevel,
     required        |-> [i \in 1..Len(requiredIds) |-> NewChild(requiredIds[i])],
     optional        |-> [i \in 1..Len(optionalIds) |-> NewChild(optionalIds[i])],
     peeksRequired   |-> [i \in 1..Len(requiredIds) |-> Nil],
     peeksOptional   |-> [i \in 1..Len(optionalIds) |-> Nil],
     pred            |-> pred,
     at              |-> ResultReset(EmptyRowNumber),
     err             |-> Nil]

\* builds the iterator whatever it is given
NewLeftJoinIteratorUnchecked(definitionLevel, requiredIds, optionalIds, pred) ==
    [j   |-> Some(leftJoinIterator(definitionLevel, requiredIds, optionalIds, pred)),
     err |-> Nil]

\* NewLeftJoinIterator, iters.go 1055-1080: the iterator and the error
NewLeftJoinIterator(definitionLevel, requiredIds, optionalIds, pred) ==
    IF Len(requiredIds) = 0
    THEN [j   |-> Nil,
          err |-> Some("left join iterator requires at least one required iterator")]
    ELSE [j   |-> Some(leftJoinIterator(definitionLevel, requiredIds, optionalIds, pred)),
          err |-> Nil]

\* the composite whose required child in slot i has returned n
leftPeeked(lj, i, n) ==
    [lj EXCEPT !.required[i] = n.iter, !.peeksRequired[i] = n.res, !.err = n.err]

\* the composite whose optional child in slot i has returned n
leftPeekedOptional(lj, i, n) ==
    [lj EXCEPT !.optional[i] = n.iter, !.peeksOptional[i] = n.res, !.err = n.err]

leftPeek(lj, i) ==
    IF lj.peeksRequired[i] = Nil
    THEN leftPeeked(lj, i, IterNext(lj.required[i]))
    ELSE lj

\* the required child is left where it is
leftSeekNone(lj, i, t, d) == lj

\* seek: the target is not truncated here
leftSeek(lj, i, t, d) ==
    IF lj.peeksRequired[i] = Nil
       \/ CompareRowNumbers(d, Get(lj.peeksRequired[i]).RowNumber, t) = -1
    THEN leftPeeked(lj, i, IterSeekTo(lj.required[i], t, d))
    ELSE lj

RECURSIVE seekAllRequiredLoop(_, _, _, _)
seekAllRequiredLoop(lj, i, t, d) ==
    IF i > Len(lj.required) THEN [it |-> lj, done |-> FALSE]
    ELSE IF lj.peeksRequired[i] = Nil
            \/ CompareRowNumbers(d, Get(lj.peeksRequired[i]).RowNumber, t) = -1
         THEN LET sought(l1) ==
                      IF l1.err # Nil THEN [it |-> l1, done |-> FALSE]
                      ELSE IF l1.peeksRequired[i] = Nil THEN [it |-> l1, done |-> TRUE]
                      ELSE seekAllRequiredLoop(l1, i + 1, t, d)
              IN  sought(leftPeeked(lj, i, IterSeekTo(lj.required[i], t, d)))
         ELSE seekAllRequiredLoop(lj, i + 1, t, d)

seekAllRequired(lj, t, d) == seekAllRequiredLoop(lj, 1, t, d)

RECURSIVE seekAllOptionalLoop(_, _, _, _)
seekAllOptionalLoop(lj, i, t, d) ==
    IF i > Len(lj.optional) THEN lj
    ELSE IF lj.peeksOptional[i] = Nil
            \/ CompareRowNumbers(d, Get(lj.peeksOptional[i]).RowNumber, t) = -1
         THEN LET sought(l1) ==
                      IF l1.err # Nil THEN l1
                      ELSE seekAllOptionalLoop(l1, i + 1, t, d)
              IN  sought(leftPeekedOptional(lj, i, IterSeekTo(lj.optional[i], t, d)))
         ELSE seekAllOptionalLoop(lj, i + 1, t, d)

\* the optional children are left where they are
seekAllOptionalNone(lj, t, d) == lj

seekAllOptional(lj, t, d) == seekAllOptionalLoop(lj, 1, t, d)

RECURSIVE leftCollectRequired(_, _, _)
leftCollectRequired(lj, i, rowNumber) ==
    IF i > Len(lj.required) THEN lj
    ELSE LET collected(r) ==
                 LET l1 == [lj EXCEPT !.required[i] = r.iter,
                                      !.peeksRequired[i] = r.peek,
                                      !.at = r.result, !.err = r.err]
                 IN  IF r.err # Nil THEN l1
                     ELSE leftCollectRequired(l1, i + 1, rowNumber)
         IN  collected(collectWhileEqual(lj.required[i], lj.peeksRequired[i], lj.at,
                                         rowNumber, lj.definitionLevel))

RECURSIVE leftCollectOptional(_, _, _)
leftCollectOptional(lj, i, rowNumber) ==
    IF i > Len(lj.optional) THEN lj
    ELSE LET collected(r) ==
                 LET l1 == [lj EXCEPT !.optional[i] = r.iter,
                                      !.peeksOptional[i] = r.peek,
                                      !.at = r.result, !.err = r.err]
                 IN  IF r.err # Nil THEN l1
                     ELSE leftCollectOptional(l1, i + 1, rowNumber)
         IN  collected(collectWhileEqual(lj.optional[i], lj.peeksOptional[i], lj.at,
                                         rowNumber, lj.definitionLevel))

leftCollect(lj, rowNumber) ==
    LET required(l2) ==
            IF l2.err # Nil THEN l2
            ELSE leftCollectOptional(l2, 1, rowNumber)
        sought(l1) ==
            IF l1.err # Nil THEN l1
            ELSE required(leftCollectRequired(l1, 1, rowNumber))
    IN  sought(seekAllOptional([lj EXCEPT !.at = ResultReset(rowNumber)],
                               rowNumber, lj.definitionLevel))

RECURSIVE leftPeekLoop(_, _)
leftPeekLoop(lj, i) ==
    IF i > Len(lj.peeksRequired) THEN [it |-> lj, done |-> FALSE]
    ELSE LET peeked(l1) ==
                 IF l1.err # Nil THEN [it |-> l1, done |-> TRUE]
                 ELSE IF l1.peeksRequired[i] = Nil THEN [it |-> l1, done |-> TRUE]
                 ELSE leftPeekLoop(l1, i + 1)
         IN  peeked(leftPeek(lj, i))

RECURSIVE leftMatchLoop(_, _)
leftMatchLoop(lj, i) ==
    IF i > Len(lj.required) THEN [it |-> lj, out |-> "match"]
    ELSE LET sought(l1) ==
                 IF l1.err # Nil THEN [it |-> l1, out |-> "err"]
                 ELSE IF l1.peeksRequired[i] = Nil THEN [it |-> l1, out |-> "nil"]
                 ELSE IF CompareRowNumbers(l1.definitionLevel,
                                           Get(l1.peeksRequired[i]).RowNumber,
                                           Get(l1.peeksRequired[1]).RowNumber) = 1
                      THEN [it  |-> [l1 EXCEPT !.required = Swap(@, 1, i),
                                               !.peeksRequired = Swap(@, 1, i)],
                            out |-> "swap"]
                      ELSE leftMatchLoop(l1, i + 1)
         IN  sought(leftSeek(lj, i, Get(lj.peeksRequired[1]).RowNumber,
                             lj.definitionLevel))

\* one pass of the outer loop of LeftJoinIterator.Next, iters.go 1094-1151
LeftJoinPass(lj) ==
    LET collected(r) ==
            IF r.err # Nil THEN Returns(r, Nil, r.err)
            ELSE IF r.pred = Nil \/ KeepGroup(Get(r.pred), r.at)
            THEN Returns(r, Some(r.at), Nil)
            ELSE ContinueOuter(r)
        matched(m) ==
            IF m.out = "err" THEN Returns(m.it, Nil, m.it.err)
            ELSE IF m.out = "nil" THEN Returns(m.it, Nil, Nil)
            ELSE IF m.out = "swap" THEN ContinueOuter(m.it)
            ELSE collected(leftCollect(m.it, Get(m.it.peeksRequired[1]).RowNumber))
        peeked(p) ==
            IF p.it.err # Nil THEN Returns(p.it, Nil, p.it.err)
            ELSE IF p.done THEN Returns(p.it, Nil, Nil)
            ELSE matched(leftMatchLoop(p.it, 2))
    IN  peeked(IF lj.peeksRequired[1] = Nil THEN leftPeekLoop(lj, 1)
               ELSE [it |-> lj, done |-> FALSE])

LeftJoinNext(lj) ==
    LET passed(p) ==
            IF p.again THEN LeftJoinNext(p.it)
            ELSE [it |-> p.it, res |-> p.res, err |-> p.err]
    IN  passed(LeftJoinPass(lj))

LeftJoinSeekTo(lj, t, d) ==
    LET soughtOptional(o) ==
            IF o.err # Nil THEN [it |-> o, res |-> Nil, err |-> o.err]
            ELSE LeftJoinNext(o)
        soughtRequired(s) ==
            IF s.it.err # Nil THEN [it |-> s.it, res |-> Nil, err |-> s.it.err]
            ELSE IF s.done THEN [it |-> s.it, res |-> Nil, err |-> Nil]
            ELSE soughtOptional(seekAllOptional(s.it, t, d))
    IN  soughtRequired(seekAllRequired(lj, t, d))

\* LeftJoinIterator.Close, iters.go 1264-1272
LeftJoinClose(lj, pool) ==
    [it   |-> [lj EXCEPT !.required = [i \in 1..Len(@) |-> IterClose(@[i])],
                         !.optional = [i \in 1..Len(@) |-> IterClose(@[i])]],
     pool |-> poolRelease(pool, "j.at")]

-----------------------------------------------------------------------------
(* UnionIterator, iters.go 1277-1413.  lowestIters holds slot numbers.      *)

NewUnionIterator(definitionLevel, ids, pred) ==
    [kind            |-> "union",
     definitionLevel |-> definitionLevel,
     iters           |-> [i \in 1..Len(ids) |-> NewChild(ids[i])],
     lowestIters     |-> <<>>,
     peeks           |-> [i \in 1..Len(ids) |-> Nil],
     pred            |-> pred,
     at              |-> ResultReset([i \in 1..8 |-> 0]),
     err             |-> Nil]

\* the error of the child is dropped
unionPeekDropErr(un, i) ==
    IF un.peeks[i] = Nil
    THEN LET n == IterNext(un.iters[i])
         IN  [un EXCEPT !.iters[i] = n.iter, !.peeks[i] = n.res]
    ELSE un

unionPeek(un, i) ==
    IF un.peeks[i] = Nil
    THEN joinPeeked(un, i, IterNext(un.iters[i]))
    ELSE un

\* the loop of Next over the children: the lowest row number at the level and
\* the slots that point at it
RECURSIVE unionLowestLoop(_, _, _)
unionLowestLoop(un, i, lowestRowNumber) ==
    IF i > Len(un.iters) THEN [it |-> un, lowestRowNumber |-> lowestRowNumber]
    ELSE LET compared(u1, rn, cmp) ==
                 IF cmp = -1
                 THEN unionLowestLoop([u1 EXCEPT !.lowestIters = <<i>>],
                                      i + 1, Get(rn).RowNumber)
                 ELSE IF cmp = 0
                 THEN unionLowestLoop([u1 EXCEPT !.lowestIters = Append(@, i)],
                                      i + 1, lowestRowNumber)
                 ELSE unionLowestLoop(u1, i + 1, lowestRowNumber)
             peeked(u1) ==
                 IF u1.err # Nil THEN [it |-> u1, lowestRowNumber |-> lowestRowNumber]
                 ELSE IF u1.peeks[i] = Nil
                 THEN unionLowestLoop(u1, i + 1, lowestRowNumber)
                 ELSE compared(u1, u1.peeks[i],
                               CompareRowNumbers(u1.definitionLevel,
                                                 Get(u1.peeks[i]).RowNumber,
                                                 lowestRowNumber))
         IN  peeked(unionPeek(un, i))

RECURSIVE unionCollectLoop(_, _, _)
unionCollectLoop(un, n, rowNumber) ==
    IF n > Len(un.lowestIters) THEN un
    ELSE LET i == un.lowestIters[n]
             collected(r) ==
                 LET u1 == [un EXCEPT !.iters[i] = r.iter, !.peeks[i] = r.peek,
                                      !.at = r.result, !.err = r.err]
                 IN  IF r.err # Nil THEN u1
                     ELSE unionCollectLoop(u1, n + 1, rowNumber)
         IN  collected(collectWhileEqual(un.iters[i], un.peeks[i], un.at, rowNumber,
                                         un.definitionLevel))

\* only the first of the lowest children is collected
unionCollectFirst(un, rowNumber) ==
    LET u1 == unionCollectLoop(
                  [un EXCEPT !.at = ResultReset(rowNumber),
                             !.lowestIters = SubSeq(@, 1, MinOf(1, Len(@)))],
                  1, rowNumber)
    IN  [u1 EXCEPT !.lowestIters = un.lowestIters]

unionCollect(un, rowNumber) ==
    unionCollectLoop([un EXCEPT !.at = ResultReset(rowNumber)], 1, rowNumber)

\* one pass of the outer loop of UnionIterator.Next, iters.go 1307-1359
UnionPass(un) ==
    LET collected(r) ==
            IF r.err # Nil THEN Returns(r, Nil, r.err)
            ELSE IF Len(r.lowestIters) > 0
            THEN IF r.pred # Nil /\ ~KeepGroup(Get(r.pred), r.at)
                 THEN ContinueOuter(r)
                 ELSE Returns(r, Some(r.at), Nil)
            ELSE Returns(r, Nil, Nil)
        lowest(l) ==
            IF l.it.err # Nil THEN Returns(l.it, Nil, l.it.err)
            ELSE collected(unionCollect(l.it, l.lowestRowNumber))
    IN  lowest(unionLowestLoop([un EXCEPT !.lowestIters = <<>>], 1, MaxRowNumber))

UnionNext(un) ==
    LET passed(p) ==
            IF p.again THEN UnionNext(p.it)
            ELSE [it |-> p.it, res |-> p.res, err |-> p.err]
    IN  passed(UnionPass(un))

RECURSIVE unionSeekLoop(_, _, _, _)
unionSeekLoop(un, i, t, d) ==
    IF i > Len(un.iters) THEN un
    ELSE IF un.peeks[i] = Nil \/ CompareRowNumbers(d, Get(un.peeks[i]).RowNumber, t) = -1
         THEN LET sought(u1) ==
                      IF u1.err # Nil THEN u1 ELSE unionSeekLoop(u1, i + 1, t, d)
              IN  sought(joinPeeked(un, i, IterSeekTo(un.iters[i], t, d)))
         ELSE unionSeekLoop(un, i + 1, t, d)

UnionSeekTo(un, t, d) ==
    LET sought(s) ==
            IF s.err # Nil THEN [it |-> s, res |-> Nil, err |-> s.err]
            ELSE UnionNext(s)
    IN  sought(unionSeekLoop(un, 1, TruncateRowNumber(d, t), d))

\* UnionIterator.Close, iters.go 1409-1413: its result is not pooled
UnionClose(un, pool) ==
    [it   |-> [un EXCEPT !.iters = [i \in 1..Len(@) |-> IterClose(@[i])]],
     pool |-> pool]

-----------------------------------------------------------------------------
(* SpecJoin: one composite iterator over child iterators that each yield a  *)
(* strictly increasing list of row numbers, driven by Next and SeekTo.      *)

RN(r, s) == [i \in 1..8 |-> IF i = 1 THEN r ELSE IF i = 2 THEN s ELSE -1]

MaxOf(a, b) == IF a > b THEN a ELSE b

\* the row numbers a child can yield, in order: row r has the sub-positions
\* 0 .. JSubs-1-r (at least one), so the groups differ in size
RECURSIVE UniverseFrom(_, _)
UniverseFrom(r, s) ==
    IF r >= JRows THEN <<>>
    ELSE IF s >= MaxOf(1, JSubs - r) THEN UniverseFrom(r + 1, 0)
    ELSE <<RN(r, s)>> \o UniverseFrom(r, s + 1)

Universe == UniverseFrom(0, 0)

RECURSIVE PickRows(_, _)
PickRows(S, n) ==
    IF n = 0 THEN <<>>
    ELSE IF n \in S THEN Append(PickRows(S, n - 1), Universe[n])
    ELSE PickRows(S, n - 1)

\* what a child can yield: any strictly increasing list over the universe
ChildLists == { PickRows(S, Len(Universe)) : S \in SUBSET (1..Len(Universe)) }

JoinLevels == 0..MaxLevel

\* a group predicate: nil, or at least n entries of one key
GroupPred(key, n) == Some([key |-> key, n |-> n])

JSeekTargets ==
    { <<RN(r, -1), 0>> : r \in 0..JRows }
      \cup { <<Universe[n], 1>> : n \in 1..Len(Universe) }

\* the first index of child k that a SeekTo(t, d) does not skip
RECURSIVE FirstAtLeast(_, _, _, _)
FirstAtLeast(k, t, d, i) ==
    IF i > Len(children[k]) THEN i
    ELSE IF CompareRowNumbers(d, children[k][i], t) >= 0 THEN i
    ELSE FirstAtLeast(k, t, d, i + 1)

RequiredIds == <<1, 2>>
OptionalIds == <<3>>

InitJoin ==
    /\ \E kind \in {"join", "leftjoin", "union"}, d \in JoinLevels :
         \/ /\ kind = "join"
            /\ children \in [1..2 -> ChildLists]
            /\ \E pred \in {Nil, GroupPred(1, 2)} :
                 node = NewJoinIterator(d, <<1, 2>>, pred)
         \/ /\ kind = "leftjoin"
            /\ children \in [1..3 -> ChildLists]
            /\ \E pred \in {Nil, GroupPred(1, 2), GroupPred(3, 1)} :
                 node = Get(NewLeftJoinIterator(d, RequiredIds, OptionalIds, pred).j)
         \/ /\ kind = "union"
            /\ children \in [1..2 -> ChildLists]
            /\ \E pred \in {Nil, GroupPred(1, 1)} :
                 node = NewUnionIterator(d, <<1, 2>>, pred)
    /\ jlast = [op |-> "New", to |-> EmptyRowNumber, d |-> 0, res |-> Nil,
                err |-> Nil, childErr |-> FALSE]
    /\ jhist = [prev |-> Nil, floor |-> [k \in DOMAIN children |-> 1],
                count |-> 0, seeks |-> FALSE]
    /\ c = Nil /\ column = Nil /\ last = Nil /\ hist = Nil
    /\ dist = Nil /\ rebatch = Nil /\ limiter = Nil
    /\ tree = Nil /\ ctx = Nil /\ fcall = Nil

\* the children of a composite
ChildIters(n) ==
    IF n.kind = "leftjoin"
    THEN { n.required[i] : i \in 1..Len(n.required) }
           \cup { n.optional[i] : i \in 1..Len(n.optional) }
    ELSE { n.iters[i] : i \in 1..Len(n.iters) }

\* a child returned an error in the call that left the composite as n
AnyFailed(n) == \E iter \in ChildIters(n) : iter.failed

\* the composite once the call has returned
AfterCall(n) ==
    IF n.kind = "leftjoin"
    THEN [n EXCEPT !.err = Nil,
                   !.required = [i \in 1..Len(@) |-> [@[i] EXCEPT !.failed = FALSE]],
                   !.optional = [i \in 1..Len(@) |-> [@[i] EXCEPT !.failed = FALSE]]]
    ELSE [n EXCEPT !.err = Nil,
                   !.iters = [i \in 1..Len(@) |-> [@[i] EXCEPT !.failed = FALSE]]]

\* the ghost record after a call: the row of the last result before the call
\* (prev), per child the first result no SeekTo so far has skipped (floor),
\* the number of results while only Next was called (count, seeks)
AfterNext(r) ==
    /\ node' = AfterCall(r.iter)
    /\ jlast' = [op |-> "Next", to |-> EmptyRowNumber, d |-> 0, res |-> r.res,
                 err |-> r.err, childErr |-> AnyFailed(r.iter)]
    /\ jhist' = [jhist EXCEPT
                   !.prev  = IF jlast.res # Nil THEN Some(Get(jlast.res).RowNumber) ELSE @,
                   !.count = IF ~jhist.seeks /\ r.res # Nil THEN @ + 1 ELSE @]
    /\ UNCHANGED children
    /\ UNCHANGED <<syncVars, distVars, lifeVars, fcall>>

AfterSeekTo(r, t, d) ==
    /\ node' = AfterCall(r.iter)
    /\ jlast' = [op |-> "SeekTo", to |-> t, d |-> d, res |-> r.res,
                 err |-> r.err, childErr |-> AnyFailed(r.iter)]
    /\ jhist' = [jhist EXCEPT
                   !.prev  = IF jlast.res # Nil THEN Some(Get(jlast.res).RowNumber) ELSE @,
                   !.floor = [k \in DOMAIN children |->
                                MaxOf(@[k], FirstAtLeast(k, TruncateRowNumber(d, t), d, 1))],
                   !.count = 0,
                   !.seeks = TRUE]
    /\ UNCHANGED children
    /\ UNCHANGED <<syncVars, distVars, lifeVars, fcall>>

JoinIteratorNext ==
    /\ node.kind = "join"
    /\ AfterNext(IterNext(node))

JoinIteratorSeekTo ==
    /\ node.kind = "join"
    /\ \E td \in JSeekTargets : AfterSeekTo(IterSeekTo(node, td[1], td[2]), td[1], td[2])

LeftJoinIteratorNext ==
    /\ node.kind = "leftjoin"
    /\ AfterNext(IterNext(node))

LeftJoinIteratorSeekTo ==
    /\ node.kind = "leftjoin"
    /\ \E td \in JSeekTargets : AfterSeekTo(IterSeekTo(node, td[1], td[2]), td[1], td[2])

UnionIteratorNext ==
    /\ node.kind = "union"
    /\ AfterNext(IterNext(node))

UnionIteratorSeekTo ==
    /\ node.kind = "union"
    /\ \E td \in JSeekTargets : AfterSeekTo(IterSeekTo(node, td[1], td[2]), td[1], td[2])

NextJoin ==
    \/ JoinIteratorNext
    \/ JoinIteratorSeekTo
    \/ LeftJoinIteratorNext
    \/ LeftJoinIteratorSeekTo
    \/ UnionIteratorNext
    \/ UnionIteratorSeekTo

SpecJoin == InitJoin /\ [][NextJoin]_vars

\* SpecFail: the same calls on composites one of whose children fails: it
\* yields a list of results and then an error on every further read
FailLists ==
    ChildLists \cup UNION { { SubSeq(l, 1, n) \o <<ErrRow>> : n \in 0..Len(l) } :
                             l \in ChildLists }

InitFail ==
    /\ \E kind \in {"join", "leftjoin", "union"}, d \in JoinLevels :
         \/ /\ kind = "join"
            /\ children \in [1..2 -> FailLists]
            /\ \E pred \in {Nil, GroupPred(1, 2)} :
                 node = NewJoinIterator(d, <<1, 2>>, pred)
         \/ /\ kind = "leftjoin"
            /\ children \in [1..3 -> FailLists]
            /\ node = Get(NewLeftJoinIterator(d, RequiredIds, OptionalIds, Nil).j)
         \/ /\ kind = "union"
            /\ children \in [1..2 -> FailLists]
            /\ \E pred \in {Nil, GroupPred(1, 1)} :
                 node = NewUnionIterator(d, <<1, 2>>, pred)
    /\ \E k \in DOMAIN children :
         /\ children[k] \notin ChildLists
         /\ \A m \in DOMAIN children \ {k} : children[m] \in ChildLists
    /\ jlast = [op |-> "New", to |-> EmptyRowNumber, d |-> 0, res |-> Nil,
                err |-> Nil, childErr |-> FALSE]
    /\ jhist = [prev |-> Nil, floor |-> [k \in DOMAIN children |-> 1],
                count |-> 0, seeks |-> FALSE]
    /\ c = Nil /\ column = Nil /\ last = Nil /\ hist = Nil
    /\ dist = Nil /\ rebatch = Nil /\ limiter = Nil
    /\ tree = Nil /\ ctx = Nil /\ fcall = Nil

SpecFail == InitFail /\ [][NextJoin]_vars

-----------------------------------------------------------------------------
(* Reference semantics of the composites, from the children's lists alone.  *)
(* A child result is available when no SeekTo made on the composite so far  *)
(* has skipped it; a group is a row-number prefix at the composite's level. *)

Ids == DOMAIN children

Avail(k) == { i \in 1..Len(children[k]) : i >= jhist.floor[k] }

Members(k, g) ==
    { i \in Avail(k) : TruncateRowNumber(node.definitionLevel, children[k][i]) = g }

Groups ==
    UNION { { TruncateRowNumber(node.definitionLevel, children[k][i]) :
                i \in 1..Len(children[k]) } : k \in Ids }

\* the group lies after the last result returned before the last call
Beyond(g) ==
    \/ jhist.prev = Nil
    \/ CompareRowNumbers(node.definitionLevel, Get(jhist.prev), g) = -1

GroupEntries(ks, g) ==
    UNION { { [Key |-> k, Value |-> i] : i \in Members(k, g) } : k \in ks }

Accepts(E) ==
    \/ node.pred = Nil
    \/ Cardinality({ e \in E : e.Key = Get(node.pred).key }) >= Get(node.pred).n

LeastGroup(G) ==
    CHOOSE g \in G : \A h \in G : CompareRowNumbers(node.definitionLevel, g, h) <= 0

EntrySet(res) == { res.Entries[i] : i \in 1..Len(res.Entries) }

\* the last call returned the least group of G with exactly the entries E(g),
\* or nil when G is empty
Returned(G, ks) ==
    IF G = {} THEN jlast.res = Nil
    ELSE /\ jlast.res # Nil
         /\ TruncateRowNumber(node.definitionLevel, Get(jlast.res).RowNumber)
              = LeastGroup(G)
         /\ EntrySet(Get(jlast.res)) = GroupEntries(ks, LeastGroup(G))
         /\ Len(Get(jlast.res).Entries) = Cardinality(GroupEntries(ks, LeastGroup(G)))

\* the number of results Next returns until nil
RECURSIVE JoinCount(_)
JoinCount(jn) ==
    LET r == JoinNext(jn)
    IN  IF r.res = Nil THEN 0 ELSE 1 + JoinCount(r.it)

-----------------------------------------------------------------------------
(* Claims about the composite iterators.                                   *)

\* C2: a JoinIterator at level d returns, at every call, the least group
\* after its last result in which every child has an available result and
\* which the group predicate, when set, accepts, with the entries of all
\* those results; it returns nil exactly when there is no such group.  So a
\* group is emitted iff every child has a result in it, none is skipped and
\* none is emitted twice.
C2_JoinEmitsMatches ==
    (node.kind = "join" /\ jlast.op # "New") =>
        Returned({ g \in Groups : /\ Beyond(g)
                                  /\ \A k \in Ids : Members(k, g) # {}
                                  /\ Accepts(GroupEntries(Ids, g)) },
                 Ids)

C2_Witness ==
    /\ node.kind = "join" /\ jlast.res # Nil /\ jhist.prev # Nil
    /\ \E k \in Ids : \E i \in 1..Len(children[k]) :
         /\ CompareRowNumbers(node.definitionLevel, Get(jhist.prev), children[k][i]) = -1
         /\ CompareRowNumbers(node.definitionLevel, children[k][i],
                              Get(jlast.res).RowNumber) = -1

\* C6 as stated: a UnionIterator at level d returns, at every call, the least
\* group after its last result in which any child has an available result,
\* with the entries of all those results, and nil only when no child has
\* anything left.
C6_UnionEmitsEveryPrefix ==
    (node.kind = "union" /\ jlast.op # "New") =>
        Returned({ g \in Groups : /\ Beyond(g)
                                  /\ \E k \in Ids : Members(k, g) # {} },
                 Ids)

\* C6 amended: the same for the groups the group predicate, when set,
\* accepts; a group it rejects is dropped.
C6_UnionEmitsAcceptedPrefixes ==
    (node.kind = "union" /\ jlast.op # "New") =>
        Returned({ g \in Groups : /\ Beyond(g)
                                  /\ \E k \in Ids : Members(k, g) # {}
                                  /\ Accepts(GroupEntries(Ids, g)) },
                 Ids)

C6_Witness ==
    /\ node.kind = "union" /\ jlast.res # Nil /\ jhist.prev # Nil
    /\ Len(Get(jlast.res).Entries) >= 2
    /\ \E i \in 1..Len(Get(jlast.res).Entries) : Get(jlast.res).Entries[i].Key = 2

\* C7 as stated: once Next has returned nil, with no SeekTo made, a
\* LeftJoinIterator has returned as many results as a JoinIterator over its
\* required children with the same level and group predicate returns.
C7_LeftJoinCountIsJoinCount ==
    (node.kind = "leftjoin" /\ jlast.op = "Next" /\ jlast.res = Nil /\ ~jhist.seeks) =>
        jhist.count = JoinCount(NewJoinIterator(node.definitionLevel, RequiredIds, node.pred))

\* C7 amended: the counts are equal when no group predicate is set or the
\* predicate reads no entry of an optional child.
C7_LeftJoinCountWithoutOptionalPred ==
    ( /\ node.kind = "leftjoin" /\ jlast.op = "Next" /\ jlast.res = Nil /\ ~jhist.seeks
      /\ (node.pred = Nil
            \/ \E i \in 1..Len(RequiredIds) : RequiredIds[i] = Get(node.pred).key) ) =>
        jhist.count = JoinCount(NewJoinIterator(node.definitionLevel, RequiredIds, node.pred))

C7_Witness ==
    /\ node.kind = "leftjoin" /\ jlast.op = "Next" /\ jlast.res = Nil /\ ~jhist.seeks
    /\ node.pred = Nil
    /\ jhist.count >= 2
    /\ Len(children[3]) >= 1
    /\ Len(children[1]) > jhist.count

\* C8: in every result of a LeftJoinIterator the entries of an optional child
\* are exactly its available results equal to the result's row number at
\* level d, each once: none from another group, none missing.
C8_OptionalEntriesOfGroup ==
    (node.kind = "leftjoin" /\ jlast.res # Nil) =>
        LET res == Get(jlast.res)
            g   == TruncateRowNumber(node.definitionLevel, res.RowNumber)
            opt == { i \in 1..Len(res.Entries) :
                       \E n \in 1..Len(OptionalIds) : res.Entries[i].Key = OptionalIds[n] }
        IN  /\ { res.Entries[i] : i \in opt }
                 = GroupEntries({ OptionalIds[n] : n \in 1..Len(OptionalIds) }, g)
            /\ Cardinality(opt)
                 = Cardinality(GroupEntries({ OptionalIds[n] : n \in 1..Len(OptionalIds) }, g))

\* an optional result of an earlier group without required match was skipped,
\* and the result has optional entries of its own group
C8_Witness ==
    /\ node.kind = "leftjoin" /\ jlast.res # Nil
    /\ \E i \in 1..Len(Get(jlast.res).Entries) :
         /\ Get(jlast.res).Entries[i].Key = 3
         /\ Get(jlast.res).Entries[i].Value >= 2
    /\ \E i \in 1..Len(children[3]) :
         /\ CompareRowNumbers(node.definitionLevel, children[3][i],
                              Get(jlast.res).RowNumber) = -1
         /\ jhist.prev = Nil

\* C9: over any sequence of Next and SeekTo calls, every result of a
\* JoinIterator, LeftJoinIterator or UnionIterator whose children yield
\* strictly increasing row numbers is greater, under Compare at level 7, than
\* the result returned before it.
C9_CompositeStrictlyIncreasing ==
    (jlast.res # Nil /\ jhist.prev # Nil) =>
        CompareRowNumbers(7, Get(jhist.prev), Get(jlast.res).RowNumber) = -1

C9_Witness ==
    /\ jlast.op = "SeekTo" /\ jlast.res # Nil /\ jhist.prev # Nil
    /\ node.kind = "union"
    /\ EqualRowNumber(0, Get(jhist.prev), Get(jlast.res).RowNumber)

-----------------------------------------------------------------------------
(* Claims about failing children, under SpecFail.                          *)

\* C19: whenever a child's Next or SeekTo returns an error during a Next or
\* SeekTo of a JoinIterator, LeftJoinIterator or UnionIterator, the call
\* returns an error and no result.
C19_ChildErrorPropagates ==
    jlast.childErr => (jlast.err # Nil /\ jlast.res = Nil)

\* after a result was returned, the optional child of a left join fails in
\* a SeekTo, or the second child of a union or of a join fails in a Next
C19_Witness ==
    /\ jlast.childErr /\ jlast.err # Nil
    /\ jhist.prev # Nil
    /\ \/ /\ node.kind = "leftjoin" /\ jlast.op = "SeekTo"
          /\ \E i \in 1..Len(children[3]) : children[3][i] = ErrRow
          /\ \A k \in 1..2 : \A i \in 1..Len(children[k]) : children[k][i] # ErrRow
       \/ /\ node.kind \in {"union", "join"} /\ jlast.op = "Next"
          /\ \A i \in 1..Len(children[1]) : children[1][i] # ErrRow

-----------------------------------------------------------------------------
(* The distributor's replication accounting.  The tally of the replica      *)
(* responses is the loop of TestDiscardCountReplicationFactor               *)
(* (distributor_test.go 1684-1696), which feeds countDiscardedSpans the way *)
(* processPushResponse does.  countDiscardedSpans itself is not among the   *)
(* sources: it is modelled from section 4.3.2 of the specification, with    *)
(* the quorum that the expectations of the test table (1563-1660) and of    *)
(* TestIngesterPushBytes fix.  Trace indexes are counted from 1.            *)

NO_ERROR == "NO_ERROR"
MAX_LIVE_TRACES == "MAX_LIVE_TRACES"
TRACE_TOO_LARGE == "TRACE_TOO_LARGE"

PushErrorReason == {NO_ERROR, MAX_LIVE_TRACES, TRACE_TOO_LARGE}

\* the batch of the test: three traces and their span counts
traceByID == << [spanCount |-> 5], [spanCount |-> 15], [spanCount |-> 10] >>

\* ring index -> trace index
keys == <<1, 3, 2>>

\* the first error reason of a trace is kept, later ones are dropped
tallyKeepFirst(numSuccess, lastErrorReason, traceIndex, err) ==
    IF err = NO_ERROR
    THEN [numSuccess      |-> [numSuccess EXCEPT ![traceIndex] = @ + 1],
          lastErrorReason |-> lastErrorReason]
    ELSE [numSuccess      |-> numSuccess,
          lastErrorReason |-> [lastErrorReason EXCEPT ![traceIndex] =
                                 IF @ = NO_ERROR THEN err ELSE @]]

\* every reason counted as a success
tallyAsSuccess(numSuccess, lastErrorReason, traceIndex, err) ==
    [numSuccess      |-> [numSuccess EXCEPT ![traceIndex] = @ + 1],
     lastErrorReason |-> lastErrorReason]

\* the body of the loop for one entry of a response
tally(numSuccess, lastErrorReason, traceIndex, err) ==
    IF err = NO_ERROR
    THEN [numSuccess      |-> [numSuccess EXCEPT ![traceIndex] = @ + 1],
          lastErrorReason |-> lastErrorReason]
    ELSE [numSuccess      |-> numSuccess,
          lastErrorReason |-> [lastErrorReason EXCEPT ![traceIndex] = err]]

\* the inner loop: one response, entry by entry
RECURSIVE tallyResponse(_, _, _, _)
tallyResponse(numSuccess, lastErrorReason, ErrorByTrace, ringIndex) ==
    IF ringIndex > Len(ErrorByTrace)
    THEN [numSuccess |-> numSuccess, lastErrorReason |-> lastErrorReason]
    ELSE LET t == tally(numSuccess, lastErrorReason, keys[ringIndex],
                        ErrorByTrace[ringIndex])
         IN  tallyResponse(t.numSuccess, t.lastErrorReason, ErrorByTrace, ringIndex + 1)

\* the outer loop: all responses in order
RECURSIVE tallyAll(_, _, _, _)
tallyAll(numSuccess, lastErrorReason, pushErrorByTrace, n) ==
    IF n > Len(pushErrorByTrace)
    THEN [numSuccess |-> numSuccess, lastErrorReason |-> lastErrorReason]
    ELSE LET t == tallyResponse(numSuccess, lastErrorReason, pushErrorByTrace[n], 1)
         IN  tallyAll(t.numSuccess, t.lastErrorReason, pushErrorByTrace, n + 1)

\* the least number of successes with which a trace is accepted
quorum(repFactor) == (repFactor \div 2) + 1

RECURSIVE sumDiscarded(_, _, _, _, _)
sumDiscarded(numSuccess, lastErrorReason, traces, q, reason) ==
    IF Len(traces) = 0 THEN 0
    ELSE (IF numSuccess[Len(traces)] < q /\ lastErrorReason[Len(traces)] = reason
          THEN traces[Len(traces)].spanCount ELSE 0)
         + sumDiscarded(numSuccess, lastErrorReason, SubSeq(traces, 1, Len(traces) - 1),
                        q, reason)

\* the span counts of the discarded traces by last error reason, and the
\* traces discarded
countDiscardedSpans(numSuccessByTraceIndex, lastErrorReasonByTraceIndex, traces, repFactor) ==
    [maxLiveDiscardedCount |->
         sumDiscarded(numSuccessByTraceIndex, lastErrorReasonByTraceIndex, traces,
                      quorum(repFactor), MAX_LIVE_TRACES),
     traceTooLargeDiscardedCount |->
         sumDiscarded(numSuccessByTraceIndex, lastErrorReasonByTraceIndex, traces,
                      quorum(repFactor), TRACE_TOO_LARGE),
     discarded |->
         { i \in 1..Len(traces) : numSuccessByTraceIndex[i] < quorum(repFactor) }]

\* the request fails as soon as a trace is discarded
sendFailsOnDiscard(d, Enabled) ==
    LET cnt == countDiscardedSpans(d.numSuccessByTraceIndex,
                                   d.lastErrorReasonByTraceIndex, traceByID,
                                   d.replicationFactor)
    IN  [counted |-> Some(cnt),
         result  |-> [err    |-> IF cnt.discarded = {} THEN Nil ELSE Some("Internal"),
                      logged |-> IF Enabled THEN cnt.discarded ELSE {}]]

\* the end of a push: the request fails when the replica writes themselves
\* missed the quorum, and otherwise succeeds, the discarded spans being
\* counted and, if LogDiscardedSpans is enabled, logged
sendToIngestersViaBytes(d, Enabled) ==
    IF d.writeErrors > d.replicationFactor \div 2
    THEN [counted |-> Nil,
          result  |-> [err    |-> Some("Internal"),
                       logged |-> IF Enabled THEN 1..Len(traceByID) ELSE {}]]
    ELSE LET cnt == countDiscardedSpans(d.numSuccessByTraceIndex,
                                        d.lastErrorReasonByTraceIndex, traceByID,
                                        d.replicationFactor)
         IN  [counted |-> Some(cnt),
              result  |-> [err    |-> Nil,
                           logged |-> IF Enabled THEN cnt.discarded ELSE {}]]

InitDist ==
    /\ \E repFactor \in 1..MaxRepFactor :
         dist = [replicationFactor           |-> repFactor,
                 numSuccessByTraceIndex      |-> [i \in 1..Len(traceByID) |-> 0],
                 lastErrorReasonByTraceIndex |-> [i \in 1..Len(traceByID) |-> NO_ERROR],
                 pushErrorByTrace            |-> <<>>,
                 writeErrors                 |-> 0,
                 counted                     |-> Nil,
                 result                      |-> Nil]
    /\ c = Nil /\ column = Nil /\ last = Nil /\ hist = Nil
    /\ node = Nil /\ children = Nil /\ jlast = Nil /\ jhist = Nil
    /\ rebatch = Nil /\ limiter = Nil
    /\ tree = Nil /\ ctx = Nil /\ fcall = Nil

\* one more replica answers with its vector of per-trace error reasons
PushResponse ==
    /\ dist.result = Nil
    /\ Len(dist.pushErrorByTrace) + dist.writeErrors < dist.replicationFactor
    /\ \E ErrorByTrace \in [1..Len(keys) -> PushErrorReason] :
         LET t == tallyResponse(dist.numSuccessByTraceIndex,
                                dist.lastErrorReasonByTraceIndex, ErrorByTrace, 1)
         IN  dist' = [dist EXCEPT
                        !.numSuccessByTraceIndex = t.numSuccess,
                        !.lastErrorReasonByTraceIndex = t.lastErrorReason,
                        !.pushErrorByTrace = Append(@, ErrorByTrace)]
    /\ UNCHANGED <<syncVars, joinVars, rebatch, limiter, lifeVars, fcall>>

\* one more replica write fails outright, with no response
PushError ==
    /\ dist.result = Nil
    /\ Len(dist.pushErrorByTrace) + dist.writeErrors < dist.replicationFactor
    /\ dist' = [dist EXCEPT !.writeErrors = @ + 1]
    /\ UNCHANGED <<syncVars, joinVars, rebatch, limiter, lifeVars, fcall>>

\* the responses are in (not all replicas need to have answered) and
\* PushTraces returns
CountDiscardedSpans ==
    /\ dist.result = Nil
    /\ \E Enabled \in BOOLEAN :
         LET r == sendToIngestersViaBytes(dist, Enabled)
         IN  dist' = [dist EXCEPT !.counted = r.counted, !.result = Some(r.result)]
    /\ UNCHANGED <<syncVars, joinVars, rebatch, limiter, lifeVars, fcall>>

NextDist == PushResponse \/ PushError \/ CountDiscardedSpans

SpecDist == InitDist /\ [][NextDist]_vars

\* the table of TestDiscardCountReplicationFactor, row by row
TestCases ==
    << 
       [pushErrorByTrace |-> << <<NO_ERROR, NO_ERROR, NO_ERROR>>, <<NO_ERROR, NO_ERROR, NO_ERROR>> >>,
        replicationFactor |-> 3, expectedLiveTracesDiscardedCount |-> 0,
        expectedTraceTooLargeDiscardedCount |-> 0],
       [pushErrorByTrace |-> << <<NO_ERROR, NO_ERROR, NO_ERROR>>, <<NO_ERROR, NO_ERROR, NO_ERROR>>, <<NO_ERROR, NO_ERROR, NO_ERROR>> >>,
        replicationFactor |-> 3, expectedLiveTracesDiscardedCount |-> 0,
        expectedTraceTooLargeDiscardedCount |-> 0],
       [pushErrorByTrace |-> << <<MAX_LIVE_TRACES, NO_ERROR, NO_ERROR>>, <<NO_ERROR, NO_ERROR, NO_ERROR>> >>,
        replicationFactor |-> 3, expectedLiveTracesDiscardedCount |-> 5,
        expectedTraceTooLargeDiscardedCount |-> 0],
       [pushErrorByTrace |-> << <<MAX_LIVE_TRACES, NO_ERROR, NO_ERROR>>, <<NO_ERROR, NO_ERROR, NO_ERROR>>, <<NO_ERROR, NO_ERROR, NO_ERROR>> >>,
        replicationFactor |-> 3, expectedLiveTracesDiscardedCount |-> 0,
        expectedTraceTooLargeDiscardedCount |-> 0],
       [pushErrorByTrace |-> << <<NO_ERROR, TRACE_TOO_LARGE, NO_ERROR>>, <<NO_ERROR, NO_ERROR, NO_ERROR>> >>,
        replicationFactor |-> 3, expectedLiveTracesDiscardedCount |-> 0,
        expectedTraceTooLargeDiscardedCount |-> 10],
       [pushErrorByTrace |-> << <<NO_ERROR, TRACE_TOO_LARGE, NO_ERROR>>, <<NO_ERROR, NO_ERROR, NO_ERROR>>, <<NO_ERROR, NO_ERROR, NO_ERROR>> >>,
        replicationFactor |-> 3, expectedLiveTracesDiscardedCount |-> 0,
        expectedTraceTooLargeDiscardedCount |-> 0],
       [pushErrorByTrace |-> << <<MAX_LIVE_TRACES, NO_ERROR, NO_ERROR>>, <<MAX_LIVE_TRACES, NO_ERROR, NO_ERROR>> >>,
        replicationFactor |-> 3, expectedLiveTracesDiscardedCount |-> 5,
        expectedTraceTooLargeDiscardedCount |-> 0],
       [pushErrorByTrace |-> << <<NO_ERROR, TRACE_TOO_LARGE, NO_ERROR>>, <<NO_ERROR, TRACE_TOO_LARGE, NO_ERROR>>, <<NO_ERROR, NO_ERROR, NO_ERROR>> >>,
        replicationFactor |-> 3, expectedLiveTracesDiscardedCount |-> 0,
        expectedTraceTooLargeDiscardedCount |-> 10],
       [pushErrorByTrace |-> << <<NO_ERROR, TRACE_TOO_LARGE, NO_ERROR>>, <<NO_ERROR, TRACE_TOO_LARGE, NO_ERROR>>, <<NO_ERROR, TRACE_TOO_LARGE, NO_ERROR>> >>,
        replicationFactor |-> 3, expectedLiveTracesDiscardedCount |-> 0,
        expectedTraceTooLargeDiscardedCount |-> 10],
       [pushErrorByTrace |-> << <<NO_ERROR, TRACE_TOO_LARGE, NO_ERROR>>, <<NO_ERROR, MAX_LIVE_TRACES, NO_ERROR>>, <<NO_ERROR, TRACE_TOO_LARGE, NO_ERROR>> >>,
        replicationFactor |-> 3, expectedLiveTracesDiscardedCount |-> 0,
        expectedTraceTooLargeDiscardedCount |-> 10],
       [pushErrorByTrace |-> << <<NO_ERROR, TRACE_TOO_LARGE, NO_ERROR>>, <<NO_ERROR, NO_ERROR, TRACE_TOO_LARGE>>, <<NO_ERROR, MAX_LIVE_TRACES, TRACE_TOO_LARGE>> >>,
        replicationFactor |-> 3, expectedLiveTracesDiscardedCount |-> 10,
        expectedTraceTooLargeDiscardedCount |-> 15],
       [pushErrorByTrace |-> << <<NO_ERROR, TRACE_TOO_LARGE, NO_ERROR>>, <<NO_ERROR, NO_ERROR, NO_ERROR>>, <<NO_ERROR, NO_ERROR, NO_ERROR>> >>,
        replicationFactor |-> 5, expectedLiveTracesDiscardedCount |-> 0,
        expectedTraceTooLargeDiscardedCount |-> 10],
       [pushErrorByTrace |-> << <<NO_ERROR, TRACE_TOO_LARGE, NO_ERROR>>, <<NO_ERROR, NO_ERROR, NO_ERROR>>, <<NO_ERROR, NO_ERROR, NO_ERROR>>, <<NO_ERROR, NO_ERROR, NO_ERROR>> >>,
        replicationFactor |-> 5, expectedLiveTracesDiscardedCount |-> 0,
        expectedTraceTooLargeDiscardedCount |-> 0],
       [pushErrorByTrace |-> << <<NO_ERROR, TRACE_TOO_LARGE, NO_ERROR>> >>,
        replicationFactor |-> 1, expectedLiveTracesDiscardedCount |-> 0,
        expectedTraceTooLargeDiscardedCount |-> 10] >>

\* what the test computes for one row of its table
TestCounts(tc) ==
    LET t == tallyAll([i \in 1..Len(traceByID) |-> 0],
                      [i \in 1..Len(traceByID) |-> NO_ERROR],
                      tc.pushErrorByTrace, 1)
    IN  countDiscardedSpans(t.numSuccess, t.lastErrorReason, traceByID,
                            tc.replicationFactor)

\* the assertions of the test hold for every row of the table: the quorum of
\* countDiscardedSpans is the one the test expects for R = 1, 3 and 5
TestDiscardCountReplicationFactor ==
    \A n \in 1..Len(TestCases) :
        /\ TestCounts(TestCases[n]).maxLiveDiscardedCount
             = TestCases[n].expectedLiveTracesDiscardedCount
        /\ TestCounts(TestCases[n]).traceTooLargeDiscardedCount
             = TestCases[n].expectedTraceTooLargeDiscardedCount

\* the NO_ERROR answers the replicas gave for trace i
NoErrorResponses(i) ==
    Cardinality({ <<n, ringIndex>> \in
                    (1..Len(dist.pushErrorByTrace)) \X (1..Len(keys)) :
                      /\ keys[ringIndex] = i
                      /\ dist.pushErrorByTrace[n][ringIndex] = NO_ERROR })

Accepted(i) == i \notin Get(dist.counted).discarded

-----------------------------------------------------------------------------
(* Claims about the replication accounting.                                *)

\* C10 as stated: with replication factor R a trace is accepted iff the
\* number of NO_ERROR replica responses for it is at least ceil(R/2) + 1.
C10_AcceptedIffCeilPlusOne ==
    dist.counted # Nil =>
        \A i \in 1..Len(traceByID) :
            Accepted(i) <=>
                NoErrorResponses(i) >= ((dist.replicationFactor + 1) \div 2) + 1

\* C10 amended: a trace is accepted iff the number of NO_ERROR replica
\* responses for it is at least floor(R/2) + 1, and discarded otherwise.
C10_AcceptedIffMajority ==
    dist.counted # Nil =>
        \A i \in 1..Len(traceByID) :
            Accepted(i) <=>
                NoErrorResponses(i) >= (dist.replicationFactor \div 2) + 1

\* R = 3: a trace accepted with two successes and one error, another discarded
C10_Witness ==
    /\ dist.counted # Nil
    /\ dist.replicationFactor = 3
    /\ Len(dist.pushErrorByTrace) = 3
    /\ \E i \in 1..Len(traceByID) :
         /\ Accepted(i)
         /\ NoErrorResponses(i) = 2
         /\ dist.lastErrorReasonByTraceIndex[i] # NO_ERROR
    /\ \E i \in 1..Len(traceByID) : ~Accepted(i)

\* the reason of the last response that reported an error for trace i,
\* NO_ERROR when none did
LastErrorOf(i) ==
    LET ring == CHOOSE ringIndex \in 1..Len(keys) : keys[ringIndex] = i
        errs == { n \in 1..Len(dist.pushErrorByTrace) :
                    dist.pushErrorByTrace[n][ring] # NO_ERROR }
    IN  IF errs = {} THEN NO_ERROR
        ELSE dist.pushErrorByTrace[CHOOSE n \in errs : \A m \in errs : m <= n][ring]

RECURSIVE SpanSum(_)
SpanSum(S) ==
    IF S = {} THEN 0
    ELSE LET i == CHOOSE x \in S : TRUE
         IN  traceByID[i].spanCount + SpanSum(S \ {i})

\* C11: the counter of each reason holds the full span counts, each once, of
\* exactly the discarded traces whose most recent non-NO_ERROR response gave
\* that reason; an accepted trace adds to no counter.
C11_DiscardedCountedUnderLastError ==
    dist.counted # Nil =>
        /\ Get(dist.counted).maxLiveDiscardedCount
             = SpanSum({ i \in 1..Len(traceByID) :
                           ~Accepted(i) /\ LastErrorOf(i) = MAX_LIVE_TRACES })
        /\ Get(dist.counted).traceTooLargeDiscardedCount
             = SpanSum({ i \in 1..Len(traceByID) :
                           ~Accepted(i) /\ LastErrorOf(i) = TRACE_TOO_LARGE })

\* a discarded trace for which replicas gave different reasons, and an
\* accepted trace for which a replica gave an error
C11_Witness ==
    /\ dist.counted # Nil
    /\ \E i \in 1..Len(traceByID) :
         /\ ~Accepted(i)
         /\ LastErrorOf(i) = TRACE_TOO_LARGE
         /\ \E n \in 1..Len(dist.pushErrorByTrace) : \E r \in 1..Len(keys) :
              keys[r] = i /\ dist.pushErrorByTrace[n][r] = MAX_LIVE_TRACES
    /\ \E i \in 1..Len(traceByID) : Accepted(i) /\ LastErrorOf(i) # NO_ERROR

\* every replica write returned a response, so that the only failures are
\* the per-trace reasons in the responses
AllRepliesIn ==
    /\ dist.writeErrors = 0
    /\ Len(dist.pushErrorByTrace) = dist.replicationFactor

\* C16: when every replica write returned and the only failures are
\* per-trace TRACE_TOO_LARGE or MAX_LIVE_TRACES reasons, PushTraces returns
\* no error, also when every trace of the batch is discarded; the discarded
\* spans are counted, and they are logged only if logging them is enabled.
C16_PerTraceRejectionsAreNotErrors ==
    (dist.result # Nil /\ AllRepliesIn) =>
        /\ Get(dist.result).err = Nil
        /\ dist.counted # Nil
        /\ Get(dist.counted).maxLiveDiscardedCount + Get(dist.counted).traceTooLargeDiscardedCount
             = SpanSum(Get(dist.counted).discarded)
        /\ Get(dist.result).logged \in { {}, Get(dist.counted).discarded }

\* every replica rejected every trace, and the push succeeded
C16_Witness ==
    /\ dist.result # Nil /\ AllRepliesIn
    /\ dist.replicationFactor = 3
    /\ Get(dist.counted).discarded = 1..Len(traceByID)
    /\ Get(dist.result).err = Nil
    /\ Get(dist.result).logged = 1..Len(traceByID)

-----------------------------------------------------------------------------
(* The rebatcher, requestsByTraceID.  Its code is not among the sources: it *)
(* is modelled from section 4.3.1 of the specification and from what        *)
(* TestRequestsByTraceID (distributor_test.go 75-924) expects of it.  A     *)
(* trace id is its length in bytes and its content; a span is its trace id  *)
(* and its name.                                                            *)

TraceID(len, v) == [len |-> len, v |-> v]

\* the trace ids of the test's "bad trace id" and "empty trace id" cases
BadTraceIDs == { TraceID(1, 1), TraceID(0, 0) }

ValidTraceIDs == { TraceID(16, v) : v \in 1..NumTraceIds }

\* util.TokenFor: a 32-bit hash of tenant and trace id, on which different
\* trace ids can collide (the test's "known collisions"); here ids whose
\* contents differ by 2 collide
TokenFor(userID, traceID) == (Len(userID) + traceID.v) % 2

\* a trace keyed by its ring token
traceKeyByToken(userID, traceID) == TokenFor(userID, traceID)

\* what identifies the rebatched trace a span goes to
traceKey(userID, traceID) == traceID

\* a request that fails on a bad trace id but hands back what it built so far
invalidTraceIDKeepPartial(acc, traceID) ==
    [acc EXCEPT !.err = Some([code |-> "InvalidArgument", bits |-> traceID.len * 8])]

\* the validation failure: "trace ids must be 128 bit, received N bits"
invalidTraceID(acc, traceID) ==
    [ringTokens |-> <<>>, rebatchedTraces |-> <<>>, keysSeen |-> <<>>,
     err |-> Some([code |-> "InvalidArgument", bits |-> traceID.len * 8])]

\* index of key k in the sequence ks, 0 when absent
RECURSIVE IndexOf(_, _, _)
IndexOf(ks, k, i) ==
    IF i > Len(ks) THEN 0
    ELSE IF ks[i] = k THEN i
    ELSE IndexOf(ks, k, i + 1)

\* one span: validate, find or create its rebatched trace, append
rebatchSpan(acc, userID, span) ==
    IF acc.err # Nil THEN acc
    ELSE IF span.TraceId.len # 16 THEN invalidTraceID(acc, span.TraceId)
    ELSE LET k == traceKey(userID, span.TraceId)
             i == IndexOf(acc.keysSeen, k, 1)
         IN  IF i = 0
             THEN [acc EXCEPT
                     !.keysSeen = Append(@, k),
                     !.ringTokens = Append(@, TokenFor(userID, span.TraceId)),
                     !.rebatchedTraces =
                         Append(@, [id |-> span.TraceId, spans |-> <<span>>,
                                    spanCount |-> 1])]
             ELSE [acc EXCEPT
                     !.rebatchedTraces[i].spans = Append(@, span),
                     !.rebatchedTraces[i].spanCount = @ + 1]

RECURSIVE rebatchSpans(_, _, _, _)
rebatchSpans(acc, userID, spans, n) ==
    IF n > Len(spans) THEN acc
    ELSE rebatchSpans(rebatchSpan(acc, userID, spans[n]), userID, spans, n + 1)

RECURSIVE rebatchScopes(_, _, _, _)
rebatchScopes(acc, userID, scopes, n) ==
    IF n > Len(scopes) THEN acc
    ELSE rebatchScopes(rebatchSpans(acc, userID, scopes[n].Spans, 1), userID, scopes, n + 1)

RECURSIVE rebatchBatches(_, _, _, _)
rebatchBatches(acc, userID, batches, n) ==
    IF n > Len(batches) THEN acc
    ELSE rebatchBatches(rebatchScopes(acc, userID, batches[n].ScopeSpans, 1),
                        userID, batches, n + 1)

requestsByTraceID(batches, userID) ==
    LET r == rebatchBatches([ringTokens |-> <<>>, rebatchedTraces |-> <<>>,
                             keysSeen |-> <<>>, err |-> Nil],
                            userID, batches, 1)
    IN  [ringTokens |-> r.ringTokens, rebatchedTraces |-> r.rebatchedTraces,
         err |-> r.err]

\* the batches made of the spans 1..n with the given trace ids: cut[i] = 1
\* ends a scope after span i, cut[i] = 2 ends a batch
RECURSIVE BuildBatches(_, _, _, _, _)
BuildBatches(ids, cut, i, spans, scopes) ==
    IF i > Len(ids) THEN <<>>
    ELSE LET sp == Append(spans, [TraceId |-> ids[i], Name |-> i])
         IN  IF cut[i] = 0 THEN BuildBatches(ids, cut, i + 1, sp, scopes)
             ELSE IF cut[i] = 1
             THEN BuildBatches(ids, cut, i + 1, <<>>, Append(scopes, [Spans |-> sp]))
             ELSE << [ScopeSpans |-> Append(scopes, [Spans |-> sp])] >>
                    \o BuildBatches(ids, cut, i + 1, <<>>, <<>>)

RequestBatches ==
    UNION { { BuildBatches(ids, cut, 1, <<>>, <<>>) :
                ids \in [1..n -> ValidTraceIDs \cup BadTraceIDs],
                cut \in { f \in [1..n -> 0..2] : n > 0 => f[n] = 2 } } :
            n \in 0..MaxSpans }

InitRebatch ==
    /\ \E batches \in RequestBatches, userID \in {"", "t"} :
         rebatch = [batches |-> batches, userID |-> userID, out |-> Nil]
    /\ limiter = Nil /\ dist = Nil
    /\ tree = Nil /\ ctx = Nil /\ fcall = Nil
    /\ c = Nil /\ column = Nil /\ last = Nil /\ hist = Nil
    /\ node = Nil /\ children = Nil /\ jlast = Nil /\ jhist = Nil

RequestsByTraceID ==
    /\ rebatch.out = Nil
    /\ rebatch' = [rebatch EXCEPT
                     !.out = Some(requestsByTraceID(rebatch.batches, rebatch.userID))]
    /\ UNCHANGED <<syncVars, joinVars, dist, limiter, lifeVars, fcall>>

NextRebatch == RequestsByTraceID

SpecRebatch == InitRebatch /\ [][NextRebatch]_vars

\* the spans of the request, in order
InputSpans ==
    LET scopesOf(b) == rebatch.batches[b].ScopeSpans
    IN  UNION { UNION { { scopesOf(b)[sc].Spans[i] : i \in 1..Len(scopesOf(b)[sc].Spans) } :
                        sc \in 1..Len(scopesOf(b)) } :
                b \in 1..Len(rebatch.batches) }

RECURSIVE SpanCountSum(_, _)
SpanCountSum(traces, n) ==
    IF n = 0 THEN 0 ELSE traces[n].spanCount + SpanCountSum(traces, n - 1)

-----------------------------------------------------------------------------
(* Claims about the rebatcher.                                             *)

AllTraceIDsValid == \A sp \in InputSpans : sp.TraceId.len = 16

\* C12: for a request whose trace ids are all valid, every input span is in
\* exactly one rebatched trace, a rebatched trace holds spans of one trace id
\* only, no two rebatched traces have the same trace id (so different trace
\* ids give different rebatched traces, whatever their ring tokens), there is
\* one ring token per rebatched trace, and the span counts sum to the number
\* of input spans.
C12_OneRebatchedTracePerTraceID ==
    (rebatch.out # Nil /\ AllTraceIDsValid) =>
        LET out    == Get(rebatch.out)
            traces == out.rebatchedTraces
            holds(t, sp) == \E i \in 1..Len(traces[t].spans) : traces[t].spans[i] = sp
        IN  /\ out.err = Nil
            /\ Len(out.ringTokens) = Len(traces)
            /\ \A sp \in InputSpans :
                 /\ \E t \in 1..Len(traces) : holds(t, sp)
                 /\ \A t, u \in 1..Len(traces) : (holds(t, sp) /\ holds(u, sp)) => t = u
            /\ \A t \in 1..Len(traces) :
                 /\ traces[t].spanCount = Len(traces[t].spans)
                 /\ out.ringTokens[t] = TokenFor(rebatch.userID, traces[t].id)
                 /\ \A i \in 1..Len(traces[t].spans) :
                      /\ traces[t].spans[i].TraceId = traces[t].id
                      /\ traces[t].spans[i] \in InputSpans
                      /\ \A k \in 1..Len(traces[t].spans) :
                           traces[t].spans[i] = traces[t].spans[k] => i = k
            /\ \A t, u \in 1..Len(traces) : traces[t].id = traces[u].id => t = u
            /\ SpanCountSum(traces, Len(traces)) = Cardinality(InputSpans)

\* two trace ids with the same ring token, one of them with spans from two
\* batches
C12_Witness ==
    /\ rebatch.out # Nil /\ AllTraceIDsValid
    /\ Len(rebatch.batches) >= 2
    /\ LET out == Get(rebatch.out)
       IN  /\ Len(out.rebatchedTraces) = 2
           /\ out.ringTokens[1] = out.ringTokens[2]
           /\ out.rebatchedTraces[1].spanCount = 2

\* the first span of the request, in order, whose trace id is not 16 bytes
RECURSIVE FirstBadSpan(_)
FirstBadSpan(n) ==
    IF n > MaxSpans THEN Nil
    ELSE IF \E sp \in InputSpans : sp.Name = n /\ sp.TraceId.len # 16
         THEN Some(CHOOSE sp \in InputSpans : sp.Name = n)
         ELSE FirstBadSpan(n + 1)

\* C13: a request with a span whose trace id is not 16 bytes long fails with
\* InvalidArgument "trace ids must be 128 bit, received N bits", N the bits
\* of that trace id, and returns no rebatched trace and no ring token,
\* however many valid spans came before.
C13_InvalidTraceIDFailsRequest ==
    (rebatch.out # Nil /\ ~AllTraceIDsValid) =>
        LET out == Get(rebatch.out)
        IN  /\ out.err = Some([code |-> "InvalidArgument",
                               bits |-> Get(FirstBadSpan(1)).TraceId.len * 8])
            /\ out.rebatchedTraces = <<>>
            /\ out.ringTokens = <<>>

\* two valid spans of different traces come before the bad one
C13_Witness ==
    /\ rebatch.out # Nil
    /\ FirstBadSpan(1) # Nil
    /\ Get(FirstBadSpan(1)).Name = 3
    /\ \E a, b \in InputSpans : a.TraceId.len = 16 /\ b.TraceId.len = 16
                                /\ a.TraceId # b.TraceId

-----------------------------------------------------------------------------
(* The ingestion rate limiter, checkForRateLimits.  One tenant, the local  *)
(* strategy of the tests: a token bucket of capacity burst that refills    *)
(* at limit bytes per second and starts full.                              *)

Min(a, b) == IF a < b THEN a ELSE b

NewRateLimiter(rateLimitBytes, burstLimitBytes) ==
    [limit |-> rateLimitBytes, burst |-> burstLimitBytes, tokens |-> burstLimitBytes]

\* a request larger than the rate limit is refused
AllowNByRate(lim, n) ==
    IF n > lim.limit THEN [ok |-> FALSE, lim |-> lim]
    ELSE [ok |-> TRUE, lim |-> [lim EXCEPT !.tokens = Min(0, @ - n)]]

\* the bucket's AllowN: n tokens are taken if the bucket holds them, and a
\* request larger than the capacity is never allowed
AllowN(lim, n) ==
    IF n > lim.burst \/ lim.tokens < n
    THEN [ok |-> FALSE, lim |-> lim]
    ELSE [ok |-> TRUE, lim |-> [lim EXCEPT !.tokens = @ - n]]

\* one second passes
refill(lim) == [lim EXCEPT !.tokens = Min(lim.burst, @ + lim.limit)]

BatchSizeForm == "batch size exceeds ingestion limit"
RateLimitForm == "ingestion rate limit exceeded while adding"

\* the batch-size form for every request larger than the burst
batchTooBigOverBurst(tracesSize, limit, burst) == tracesSize > burst

\* which of the two messages a rejection carries
batchTooBig(tracesSize, limit, burst) == tracesSize > limit /\ tracesSize > burst

rateLimitError(form, lim, tracesSize, userID) ==
    [code   |-> "ResourceExhausted",
     reason |-> "RATE_LIMITED",
     form   |-> form,
     local  |-> lim.limit,
     global |-> 0,
     burst  |-> lim.burst,
     adding |-> tracesSize,
     user   |-> userID]

checkForRateLimits(lim, tracesSize, spanCount, userID) ==
    LET r == AllowN(lim, tracesSize)
    IN  IF r.ok
        THEN [lim |-> r.lim, err |-> Nil, discarded |-> 0]
        ELSE [lim |-> r.lim,
              err |-> Some(rateLimitError(
                         IF batchTooBig(tracesSize, lim.limit, lim.burst)
                         THEN BatchSizeForm ELSE RateLimitForm,
                         lim, tracesSize, userID)),
              discarded |-> spanCount]

RateUsers == {"test-user"}

InitRate ==
    /\ \E rateLimitBytes \in 1..MaxRate, burstLimitBytes \in 1..MaxBurst :
         limiter = [lim  |-> NewRateLimiter(rateLimitBytes, burstLimitBytes),
                    call |-> Nil]
    /\ c = Nil /\ column = Nil /\ last = Nil /\ hist = Nil
    /\ node = Nil /\ children = Nil /\ jlast = Nil /\ jhist = Nil
    /\ dist = Nil /\ rebatch = Nil
    /\ tree = Nil /\ ctx = Nil /\ fcall = Nil

\* d.checkForRateLimits(tracesSize, spanCount, userID); call keeps the
\* arguments, the bucket the call found and left, and what it returned
CheckForRateLimits ==
    /\ limiter # Nil
    /\ \E tracesSize \in 1..MaxSize, spanCount \in 1..2, userID \in RateUsers :
         LET r == checkForRateLimits(limiter.lim, tracesSize, spanCount, userID)
         IN  limiter' = [lim  |-> r.lim,
                         call |-> Some([tracesSize |-> tracesSize,
                                        userID     |-> userID,
                                        before     |-> limiter.lim,
                                        after      |-> r.lim,
                                        err        |-> r.err,
                                        discarded  |-> r.discarded])]
    /\ UNCHANGED <<syncVars, joinVars, dist, rebatch, lifeVars, fcall>>

\* a second passes between two calls
Tick ==
    /\ limiter # Nil
    /\ limiter.lim.tokens < limiter.lim.burst
    /\ limiter' = [limiter EXCEPT !.lim = refill(@)]
    /\ UNCHANGED <<syncVars, joinVars, dist, rebatch, lifeVars, fcall>>

NextRate == CheckForRateLimits \/ Tick

SpecRate == InitRate /\ [][NextRate]_vars

\* the rows of TestCheckForRateLimits: size, rate limit, burst, and the
\* expected form of the error ("" for none)
RateTestCases ==
    << <<100,  500, 500,  "">>,
       <<500,  500, 500,  "">>,
       <<500,  200, 500,  "">>,
       <<1100, 500, 1500, "">>,
       <<1100, 500, 500,  BatchSizeForm>>,
       <<1000, 500, 500,  BatchSizeForm>>,
       <<500,  500, 200,  RateLimitForm>> >>

TestCheckForRateLimits ==
    \A i \in 1..Len(RateTestCases) :
        LET tc == RateTestCases[i]
            r  == checkForRateLimits(NewRateLimiter(tc[2], tc[3]), tc[1], 100, "test-user")
        IN  IF tc[4] = ""
            THEN r.err = Nil
            ELSE r.err = Some(rateLimitError(tc[4], NewRateLimiter(tc[2], tc[3]),
                                             tc[1], "test-user"))

-----------------------------------------------------------------------------
(* Claims about the rate limiter.                                          *)

Rejected == limiter.call # Nil /\ Get(limiter.call).err # Nil

CarriesBucketState ==
    LET call == Get(limiter.call)
        err  == Get(call.err)
    IN  /\ err.code = "ResourceExhausted" /\ err.reason = "RATE_LIMITED"
        /\ err.local = call.before.limit /\ err.global = 0
        /\ err.burst = call.before.burst
        /\ err.adding = call.tracesSize /\ err.user = call.userID

\* C14, as stated: a rejected request carries the "ingestion rate limit
\* exceeded" message when its size is larger than the burst and the "batch
\* size exceeds ingestion limit" message when it fits the burst but not the
\* tokens in the bucket.  Violated: the test's row (1100, 500, 500) expects
\* the batch-size message for a size larger than the burst.
C14_MessageByBurstOnly ==
    Rejected =>
        LET call == Get(limiter.call)
        IN  /\ Get(call.err).form =
                 IF call.tracesSize > call.before.burst
                 THEN RateLimitForm ELSE BatchSizeForm
            /\ CarriesBucketState

\* C14, amended: a rejected request carries the "batch size exceeds
\* ingestion limit" message when its size is larger than both the rate
\* limit and the burst, and the "ingestion rate limit exceeded while adding"
\* message in every other rejection; either message carries the local
\* limit, the global limit, the burst, the added bytes and the tenant.
C14_MessageByRateAndBurst ==
    /\ TestCheckForRateLimits
    /\ Rejected =>
        LET call == Get(limiter.call)
        IN  /\ Get(call.err).form =
                 IF /\ call.tracesSize > call.before.burst
                    /\ call.tracesSize > call.before.limit
                 THEN BatchSizeForm ELSE RateLimitForm
            /\ CarriesBucketState

\* a request over the burst and within the rate limit is rejected
C14_Witness ==
    /\ Rejected
    /\ Get(limiter.call).tracesSize > Get(limiter.call).before.burst
    /\ Get(limiter.call).tracesSize <= Get(limiter.call).before.limit

\* C15: against a full bucket a request of size s is accepted whenever
\* s <= burst, also when the rate limit is below the burst, and rejected
\* with RATE_LIMITED (ResourceExhausted) whenever s > burst.
C15_FullBucketAcceptsUpToBurst ==
    (limiter.call # Nil /\ Get(limiter.call).before.tokens = Get(limiter.call).before.burst) =>
        LET call == Get(limiter.call)
        IN  IF call.tracesSize <= call.before.burst
            THEN /\ call.err = Nil
                 /\ call.after.tokens = call.before.tokens - call.tracesSize
            ELSE /\ call.err # Nil
                 /\ Get(call.err).code = "ResourceExhausted"
                 /\ Get(call.err).reason = "RATE_LIMITED"
                 /\ call.after = call.before

\* a request of exactly the burst, above the rate limit, against a full
\* bucket
C15_Witness ==
    /\ limiter.call # Nil
    /\ Get(limiter.call).before.tokens = Get(limiter.call).before.burst
    /\ Get(limiter.call).tracesSize = Get(limiter.call).before.burst
    /\ Get(limiter.call).before.limit < Get(limiter.call).before.burst
    /\ Get(limiter.call).err = Nil

-----------------------------------------------------------------------------
(* SpecTree: a composite iterator over two SyncIterators, called and then   *)
(* closed, once and again.  The pool is the ResultPool of the composite.   *)

\* the rows of the columns under a composite, and the Close calls made
TreeRows == 2
MaxCloses == 2

RECURSIVE NumRowsOf(_)
NumRowsOf(rgs) ==
    IF rgs = <<>> THEN 0 ELSE rgs[1].numRows + NumRowsOf(Tail(rgs))

TreeColumns == { col \in Columns : NumRowsOf(col) <= TreeRows }

\* the columns of the second leaf: no filter, all rows, one row group of
\* more than one page
TreeColumnsFull ==
    { col \in TreeColumns : /\ AllKept(col)
                            /\ NumRowsOf(col) = TreeRows
                            /\ Len(col) = 1
                            /\ Len(col[1].cc.pages) > 1 }

\* a composite over the given SyncIterators instead of numbered children
OverSync(n, its) ==
    LET ch == [i \in 1..Len(its) |-> NewSyncChild(i, its[i])]
    IN  IF n.kind = "leftjoin"
        THEN [n EXCEPT !.required = <<ch[1]>>, !.optional = <<ch[2]>>]
        ELSE [n EXCEPT !.iters = ch]

\* the SyncIterators under a composite
Leaves(n) == { iter.it : iter \in ChildIters(n) }

TopClose(n, pool) ==
    IF n.kind = "join" THEN JoinClose(n, pool)
    ELSE IF n.kind = "leftjoin" THEN LeftJoinClose(n, pool)
    ELSE UnionClose(n, pool)

InitTree ==
    /\ \E kind \in {"join", "leftjoin", "union"}, d \in JoinLevels,
          colA \in TreeColumns, colB \in TreeColumnsFull,
          hasFilter \in BOOLEAN, flip \in BOOLEAN :
         /\ (~hasFilter => AllKept(colA))
         /\ LET a   == NewSyncIterator(colA, hasFilter, ReadSize, MaxDefinitionLevel)
                b   == NewSyncIterator(colB, FALSE, ReadSize, MaxDefinitionLevel)
                its == IF flip THEN <<b, a>> ELSE <<a, b>>
                n   == IF kind = "join" THEN NewJoinIterator(d, <<1, 2>>, Nil)
                       ELSE IF kind = "leftjoin"
                       THEN Get(NewLeftJoinIterator(d, <<1>>, <<2>>, Nil).j)
                       ELSE NewUnionIterator(d, <<1, 2>>, Nil)
            IN  tree = [top    |-> OverSync(n, its),
                        pool   |-> <<>>,
                        closes |-> 0,
                        first  |-> Nil,
                        last   |-> [op |-> "New", res |-> Nil]]
    /\ ctx = Nil /\ fcall = Nil
    /\ c = Nil /\ column = Nil /\ last = Nil /\ hist = Nil
    /\ node = Nil /\ children = Nil /\ jlast = Nil /\ jhist = Nil
    /\ dist = Nil /\ rebatch = Nil /\ limiter = Nil

\* the tree after a call has returned r
TreeAfter(method, r) ==
    tree' = [tree EXCEPT !.top = AfterCall(r.iter),
                         !.last = [op |-> method, res |-> r.res]]

TreeNext ==
    /\ tree.closes = 0
    /\ TreeAfter("Next", IterNext(tree.top))
    /\ UNCHANGED <<syncVars, joinVars, distVars, ctx, fcall>>

TreeSeekTo ==
    /\ tree.closes = 0
    /\ \E to \in SeekTargets(tree.top.definitionLevel) :
         TreeAfter("SeekTo", IterSeekTo(tree.top, to, tree.top.definitionLevel))
    /\ UNCHANGED <<syncVars, joinVars, distVars, ctx, fcall>>

\* Close; first: the tree and the pool as the first Close left them
TreeClose ==
    /\ tree.closes < MaxCloses
    /\ LET r == TopClose(tree.top, tree.pool)
       IN  tree' = [tree EXCEPT !.top = r.it,
                                !.pool = r.pool,
                                !.closes = @ + 1,
                                !.first = IF tree.closes = 0
                                          THEN Some([top |-> r.it, pool |-> r.pool])
                                          ELSE @,
                                !.last = [op |-> "Close", res |-> Nil]]
    /\ UNCHANGED <<syncVars, joinVars, distVars, ctx, fcall>>

NextTree == TreeNext \/ TreeSeekTo \/ TreeClose

SpecTree == InitTree /\ [][NextTree]_vars

-----------------------------------------------------------------------------
(* Claims about Close and the handles, under SpecTree                      *)

\* a result is in the pool more than once
PooledTwice(pool) ==
    \E i \in 1..Len(pool) : \E k \in (i + 1)..Len(pool) : pool[i] = pool[k]

\* C17: Close of a SyncIterator, JoinIterator, LeftJoinIterator or
\* UnionIterator is idempotent: a second Close leaves the iterators and the
\* pool as the first Close left them, and releases no page, no column chunk
\* and no pooled IteratorResult a second time.
C17_CloseIdempotent ==
    tree.closes >= 2 =>
        /\ [top |-> tree.top, pool |-> tree.pool] = Get(tree.first)
        /\ ~PooledTwice(tree.pool)
        /\ \A it \in Leaves(tree.top) : ~it.held.twice

\* C18: every page a SyncIterator obtains is released exactly once, the
\* iterator holds at most one page and one column chunk at any time, and
\* after Close of the top-level iterator no iterator of the tree holds a
\* page or a column chunk.
C18_PagesReleasedOnce ==
    \A it \in Leaves(tree.top) :
        /\ ~it.held.twice
        /\ it.held.peakPages <= 1 /\ it.held.peakChunks <= 1
        /\ tree.closes >= 1 => (it.held.pages = <<>> /\ it.held.chunks = <<>>)

\* C18, amended: every page a SyncIterator obtains is released exactly once;
\* between calls the iterator holds its current page and its current column
\* chunk and nothing else; it never holds more than one column chunk, and
\* never more than two pages (two while SeekTo replaces the current page by
\* its reslice); after Close of the top-level iterator no iterator of the
\* tree holds a page or a column chunk.
C18_PagesReleasedOnceBetweenCalls ==
    \A it \in Leaves(tree.top) :
        /\ ~it.held.twice
        /\ it.held.pages = (IF it.currPage = Nil THEN <<>> ELSE <<Get(it.currPage)>>)
        /\ it.held.chunks = (IF it.currChunk = Nil THEN <<>> ELSE <<it.currRowGroupMin>>)
        /\ it.held.peakPages <= 2 /\ it.held.peakChunks <= 1
        /\ tree.closes >= 1 => (it.held.pages = <<>> /\ it.held.chunks = <<>>)

\* the tree was closed after a SeekTo resliced the page of a leaf: the leaf
\* held two pages at once and holds none now
C18_Witness ==
    /\ tree.closes = 1
    /\ \E it \in Leaves(tree.top) :
         it.held.peakPages = 2 /\ it.held.pages = <<>> /\ it.held.chunks = <<>>

-----------------------------------------------------------------------------
(* SpecCancel: a SyncIterator whose context is cancelled at some point.     *)
(* NewSyncIterator hands ctx to tracer.Start and keeps no reference to it  *)
(* (iters.go 420-467); Next and SeekTo are the ones of SpecSync.            *)

InitCancel ==
    /\ column \in TreeColumns
    /\ \E hasFilter \in BOOLEAN :
         /\ (~hasFilter => AllKept(column))
         /\ c = NewSyncIterator(column, hasFilter, ReadSize, MaxDefinitionLevel)
    /\ last = [op |-> "New", to |-> EmptyRowNumber, d |-> 0, res |-> Nil]
    /\ hist = [any |-> FALSE, pos |-> 0, emitted |-> <<>>, seeks |-> FALSE]
    /\ ctx = [done |-> FALSE, at |-> Nil]
    /\ tree = Nil /\ fcall = Nil
    /\ node = Nil /\ children = Nil /\ jlast = Nil /\ jhist = Nil
    /\ dist = Nil /\ rebatch = Nil /\ limiter = Nil

\* the context is cancelled; at: the iterator as it is then
Cancel ==
    /\ ~ctx.done
    /\ ctx' = [done |-> TRUE, at |-> Some(c)]
    /\ UNCHANGED <<syncVars, joinVars, distVars, tree, fcall>>

NextCancel == Next \/ SeekTo \/ Cancel

SpecCancel == InitCancel /\ [][NextCancel]_vars

\* the values of the page the iterator is on
PageIds(it) ==
    IF it.currPage = Nil THEN {}
    ELSE { Get(it.currPage).values[i].id : i \in 1..Len(Get(it.currPage).values) }

\* C20: after the context is cancelled, Next and SeekTo of a SyncIterator
\* observe the cancellation no later than the next page transition: they
\* return no result read from a page other than the one the iterator was on
\* when the context was cancelled.
C20_CancellationObserved ==
    (ctx.done /\ last.res # Nil) =>
        Get(last.res).Entries[1].Value \in PageIds(Get(ctx.at))

(***************************************************************************)
(* Value buffers                                                           *)
(***************************************************************************)

(* SpecBuf: the value buffer of one SyncIterator of read size readSize and *)
(* syncIteratorPool.  The iterator gets its buffer when it has none, reads *)
(* values into it, as many as the page gives, and puts it back when it     *)
(* leaves the page.  The pool holds the buffer put last and may drop it.   *)

\* largest read size, the capacity asked of the pool
MaxReadSize == 3

\* the values of a page
PageValues == { [ZeroValue EXCEPT !.id = k] : k \in 1..2 }

\* sync.Pool's New
NewBuf == [arr |-> <<>>, len |-> 0]

InitBuf ==
    /\ \E readSize \in 1..MaxReadSize :
          fcall = [readSize |-> readSize, currBuf |-> Nil, pool |-> Nil, last |-> "New"]
    /\ c = Nil /\ column = Nil /\ last = Nil /\ hist = Nil
    /\ node = Nil /\ children = Nil /\ jlast = Nil /\ jhist = Nil
    /\ dist = Nil /\ rebatch = Nil /\ limiter = Nil
    /\ tree = Nil /\ ctx = Nil

\* next, iters.go 744-746: the buffer is the pooled one, or a new one when
\* the pool holds none or has dropped it
GetBuf ==
    /\ fcall.currBuf = Nil
    /\ \E res \in {NewBuf} \cup (IF fcall.pool = Nil THEN {} ELSE {Get(fcall.pool)}) :
          fcall' = [fcall EXCEPT !.currBuf = Some(syncIteratorPoolGet(res, fcall.readSize, 0)),
                                 !.pool = Nil,
                                 !.last = "Get"]
    /\ UNCHANGED <<syncVars, joinVars, distVars, lifeVars>>

\* next, iters.go 747-753: ReadValues fills c.currBuf[:cap(c.currBuf)] from
\* its start with the n values it has, and the buffer is cut to n
ReadValues ==
    /\ fcall.currBuf # Nil
    /\ \E n \in 0..Len(Get(fcall.currBuf).arr) : \E read \in [1..n -> PageValues] :
          fcall' = [fcall EXCEPT !.currBuf = Some([arr |-> [i \in 1..Len(Get(@).arr) |->
                                                             IF i <= n THEN read[i]
                                                             ELSE Get(@).arr[i]],
                                                   len |-> n]),
                                 !.last = "ReadValues"]
    /\ UNCHANGED <<syncVars, joinVars, distVars, lifeVars>>

\* seekWithinPage and setPage, iters.go 698 and 807-810
PutBuf ==
    /\ fcall.currBuf # Nil
    /\ fcall' = [fcall EXCEPT !.pool = Some(syncIteratorPoolPut(Get(fcall.currBuf))),
                              !.currBuf = Nil,
                              !.last = "Put"]
    /\ UNCHANGED <<syncVars, joinVars, distVars, lifeVars>>

NextBuf == GetBuf \/ ReadValues \/ PutBuf

SpecBuf == InitBuf /\ [][NextBuf]_vars

\* C21: whenever a SyncIterator returns a value buffer to the pool, every
\* slot of the buffer's array, up to its capacity, holds the zero value.
C21_BuffersClearedToCapacity ==
    (fcall.last = "Put") =>
        \A i \in 1..Len(Get(fcall.pool).arr) : Get(fcall.pool).arr[i] = ZeroValue

-----------------------------------------------------------------------------
(* SpecRow: the operations on one RowNumber, each applied to a row number  *)
(* whose positions are defined down to some level and -1 below it.         *)

\* highest position value of the row numbers tried
RowValMax == 1

RowNumbers ==
    { [i \in 1..8 |-> IF i <= k THEN f[i] ELSE -1] :
        k \in 0..8, f \in [1..8 -> 0..RowValMax] }

InitRow ==
    /\ \E t \in RowNumbers : fcall = [fn |-> "RowNumber", t |-> t, d |-> 0, out |-> t]
    /\ c = Nil /\ column = Nil /\ last = Nil /\ hist = Nil
    /\ node = Nil /\ children = Nil /\ jlast = Nil /\ jhist = Nil
    /\ dist = Nil /\ rebatch = Nil /\ limiter = Nil
    /\ tree = Nil /\ ctx = Nil

\* t.Preceding()
CallPreceding ==
    /\ fcall' = [fcall EXCEPT !.fn = "Preceding", !.d = 0, !.out = Preceding(fcall.t)]
    /\ UNCHANGED <<syncVars, joinVars, distVars, lifeVars>>

\* TruncateRowNumber(d, t)
CallTruncateRowNumber ==
    /\ \E d \in 0..MaxDefinitionLevel :
         fcall' = [fcall EXCEPT !.fn = "TruncateRowNumber", !.d = d,
                              !.out = TruncateRowNumber(d, fcall.t)]
    /\ UNCHANGED <<syncVars, joinVars, distVars, lifeVars>>

NextRow == CallPreceding \/ CallTruncateRowNumber

SpecRow == InitRow /\ [][NextRow]_vars

\* the positions tried around position v: 0, one below v, v and MaxInt32
Near(v) == {0, v, MaxInt32} \cup (IF v > 0 THEN {v - 1} ELSE {})

\* the row numbers defined at the levels of t with a position near the one
\* of t at each of these levels
RECURSIVE AroundFrom(_, _)
AroundFrom(t, i) ==
    IF i > 8 THEN {t}
    ELSE IF t[i] = -1 THEN AroundFrom(t, i + 1)
    ELSE UNION { AroundFrom([t EXCEPT ![i] = v], i + 1) : v \in Near(t[i]) }

Around(t) == AroundFrom(t, 1)

\* C22: for every valid row number r, Preceding(r) is strictly less than r
\* under CompareRowNumbers(7, ., .), and no row number defined at the levels
\* of r lies strictly between Preceding(r) and r.
C22_PrecedingIsImmediatelyPrior ==
    (fcall.fn = "Preceding" /\ Valid(fcall.t)) =>
        /\ CompareRowNumbers(7, fcall.out, fcall.t) < 0
        /\ \A r \in Around(fcall.t) :
              ~(/\ CompareRowNumbers(7, fcall.out, r) < 0
                /\ CompareRowNumbers(7, r, fcall.t) < 0)

\* C25: for every row number r and every level d in 0..7,
\* CompareRowNumbers(d, TruncateRowNumber(d, r), r) is 0.
C25_TruncateComparesEqual ==
    fcall.fn = "TruncateRowNumber" =>
        CompareRowNumbers(fcall.d, fcall.out, fcall.t) = 0

\* a truncation that cut defined positions off
C25_Witness ==
    /\ fcall.fn = "TruncateRowNumber"
    /\ fcall.d = 2
    /\ fcall.t[4] >= 0
    /\ fcall.out # fcall.t

-----------------------------------------------------------------------------
(* Row group bounds                                                        *)

\* the rows of the first n row groups of the column
RowsIn(rgs, n) ==
    LET vs == ColumnValues(SubSeq(rgs, 1, n))
    IN  countRows(vs, Len(vs))

-----------------------------------------------------------------------------
(* Levels of the row number                                                *)

\* C24: after a SyncIterator has read a value v, returned or filtered out,
\* its row number is defined (>= 0) at the positions 0..def(v) and -1 at the
\* positions def(v)+1..maxDef, across page and row group transitions, page
\* skips and reslicing; so is the row number of every result for the value
\* it carries.
C24_RowNumberRespectsLevels ==
    /\ ~c.held.offLevels
    /\ last.res # Nil =>
          Levelled(Get(last.res).RowNumber, Flat[ResultId(last.res)].def,
                   c.maxDefinitionLevel)

-----------------------------------------------------------------------------
(* A JoinIterator over two copies of one iterator                          *)

\* the indices at which a run of results equal at level d starts in the list
RECURSIVE RunStarts(_, _, _)
RunStarts(list, d, i) ==
    IF i > Len(list) THEN <<>>
    ELSE (IF i = 1 \/ ~EqualRowNumber(d, list[i - 1], list[i]) THEN <<i>> ELSE <<>>)
           \o RunStarts(list, d, i + 1)

\* a JoinIterator without predicate over two children that yield the same
\* list, on which only Next has been called
SelfJoin ==
    /\ node.kind = "join" /\ node.pred = Nil
    /\ children[1] = children[2]
    /\ jlast.op = "Next" /\ ~jhist.seeks

\* C26 as stated: joining an iterator I with an identical copy of itself, at
\* any definition level, yields exactly I's sequence of row numbers: the
\* k-th Next returns the row number of I's k-th result, and nil after I's
\* last.
C26_SelfJoinYieldsI ==
    SelfJoin =>
        IF jlast.res = Nil THEN jhist.count = Len(children[1])
        ELSE /\ jhist.count <= Len(children[1])
             /\ Get(jlast.res).RowNumber = children[1][jhist.count]

\* C26, amended: joining I with an identical copy of itself at level d yields
\* one result for each run of I's results that are equal at level d, with
\* the row number of the first result of the run and the entries of every
\* result of the run from both copies, and nil after the last run.
C26_SelfJoinYieldsRunsOfI ==
    SelfJoin =>
        LET I      == children[1]
            starts == RunStarts(I, node.definitionLevel, 1)
            k      == jhist.count
            run    == { i \in 1..Len(I) :
                          /\ i >= starts[k]
                          /\ k < Len(starts) => i < starts[k + 1] }
        IN  IF jlast.res = Nil THEN k = Len(starts)
            ELSE /\ k <= Len(starts)
                 /\ Get(jlast.res).RowNumber = I[starts[k]]
                 /\ EntrySet(Get(jlast.res)) =
                       { [Key |-> id, Value |-> i] : id \in {1, 2}, i \in run }
                 /\ Len(Get(jlast.res).Entries) = 2 * Cardinality(run)

\* the join has returned a run of two results of I as one and now returns
\* I's third result as its second
C26_Witness ==
    /\ SelfJoin
    /\ node.definitionLevel = 0
    /\ jlast.res # Nil
    /\ jhist.count = 2
    /\ Len(children[1]) >= 3
    /\ Get(jlast.res).RowNumber = children[1][3]

-----------------------------------------------------------------------------
(* SpecNew: NewLeftJoinIterator called with any lists of required and      *)
(* optional iterators, the empty ones included.                            *)

NewLevels == 0..MaxDefinitionLevel

NewIdLists == { <<>>, <<1>>, <<1, 2>> }

InitNew ==
    /\ \E d \in NewLevels, required \in NewIdLists, optional \in NewIdLists,
          pred \in {Nil, GroupPred(1, 1)} :
         fcall = [fn |-> "none", definitionLevel |-> d, required |-> required,
                  optional |-> optional, pred |-> pred, out |-> Nil]
    /\ c = Nil /\ column = Nil /\ last = Nil /\ hist = Nil
    /\ node = Nil /\ children = Nil /\ jlast = Nil /\ jhist = Nil
    /\ dist = Nil /\ rebatch = Nil /\ limiter = Nil
    /\ tree = Nil /\ ctx = Nil

CallNewLeftJoinIterator ==
    /\ fcall' = [fcall EXCEPT
                   !.fn  = "NewLeftJoinIterator",
                   !.out = Some(NewLeftJoinIterator(fcall.definitionLevel, fcall.required,
                                                    fcall.optional, fcall.pred))]
    /\ UNCHANGED <<syncVars, joinVars, distVars, lifeVars>>

NextNew == CallNewLeftJoinIterator

SpecNew == InitNew /\ [][NextNew]_vars

\* C27: NewLeftJoinIterator returns an error and no iterator whenever the
\* list of required iterators is empty, so no LeftJoinIterator without a
\* required iterator is ever constructed.
C27_NoLeftJoinWithoutRequired ==
    fcall.fn = "NewLeftJoinIterator" =>
        /\ Len(fcall.required) = 0 =>
              (Get(fcall.out).err # Nil /\ Get(fcall.out).j = Nil)
        /\ Get(fcall.out).j # Nil => Len(Get(Get(fcall.out).j).required) >= 1

\* the constructor was given optional iterators only
C27_Witness ==
    /\ fcall.fn = "NewLeftJoinIterator"
    /\ Len(fcall.required) = 0 /\ Len(fcall.optional) = 2
    /\ Get(fcall.out).err # Nil

-----------------------------------------------------------------------------
(* KeyValueGroupPredicate, iters.go 1421-1495.  A byte string is a tuple   *)
(* of bytes; the Value of an entry is its ByteArray().                     *)

\* IteratorResult.Columns, iters.go 238-256: per name the values of the
\* entries under that name, in the order of the entries
ResultColumns(r, names) ==
    [i \in 1..Len(names) |->
        LET named(e) == e.Key = names[i]
            es       == SelectSeq(r.Entries, named)
        IN  [k \in 1..Len(es) |-> es[k].Value]]

\* NewKeyValueGroupPredicate, iters.go 1433-1443
NewKeyValueGroupPredicate(ks, values) == [keys |-> ks, vals |-> values]

\* KeyValueGroupPredicate.KeepGroup, iters.go 1458-1495
KeyValueKeepGroup(a, group) ==
    LET buffer == ResultColumns(group, <<"keys", "values">>)
        ks     == buffer[1]
        vs     == buffer[2]
    IN  IF Len(ks) < Len(a.keys) \/ Len(ks) # Len(vs)
        THEN FALSE
        ELSE \A i \in 1..Len(a.keys) :
                \E j \in 1..MinOf(Len(ks), Len(vs)) :
                    a.keys[i] = ks[j] /\ a.vals[i] = vs[j]

-----------------------------------------------------------------------------
(* SpecKV: KeepGroup of a predicate of up to KVMax pairs on a group whose   *)
(* keys and values columns hold up to KVMax values each, the entries of    *)
(* the two columns alternating or one column after the other.              *)

KVMax == 2

KVBytes == { <<1>>, <<1, 2>> }

KVLists == UNION { [1..n -> KVBytes] : n \in 0..KVMax }

\* the entries of a group with the given columns
RECURSIVE Alternating(_, _)
Alternating(ks, vs) ==
    IF ks = <<>> /\ vs = <<>> THEN <<>>
    ELSE (IF ks = <<>> THEN <<>> ELSE <<[Key |-> "keys", Value |-> Head(ks)]>>)
           \o (IF vs = <<>> THEN <<>> ELSE <<[Key |-> "values", Value |-> Head(vs)]>>)
           \o Alternating(IF ks = <<>> THEN ks ELSE Tail(ks),
                          IF vs = <<>> THEN vs ELSE Tail(vs))

ColumnAfterColumn(ks, vs) ==
    [i \in 1..Len(ks) |-> [Key |-> "keys", Value |-> ks[i]]]
      \o <<[Key |-> "other", Value |-> <<1>>]>>
      \o [i \in 1..Len(vs) |-> [Key |-> "values", Value |-> vs[i]]]

InitKV ==
    /\ \E n \in 0..KVMax : \E pk \in [1..n -> KVBytes], pv \in [1..n -> KVBytes] :
         \E ks \in KVLists, vs \in KVLists, alt \in BOOLEAN :
            fcall = [fn     |-> "none",
                     a      |-> NewKeyValueGroupPredicate(pk, pv),
                     keys   |-> ks,
                     values |-> vs,
                     group  |-> [RowNumber |-> EmptyRowNumber,
                                 Entries |-> IF alt THEN Alternating(ks, vs)
                                             ELSE ColumnAfterColumn(ks, vs)],
                     out    |-> FALSE]
    /\ c = Nil /\ column = Nil /\ last = Nil /\ hist = Nil
    /\ node = Nil /\ children = Nil /\ jlast = Nil /\ jhist = Nil
    /\ dist = Nil /\ rebatch = Nil /\ limiter = Nil
    /\ tree = Nil /\ ctx = Nil

CallKeepGroup ==
    /\ fcall' = [fcall EXCEPT !.fn = "KeepGroup",
                              !.out = KeyValueKeepGroup(fcall.a, fcall.group)]
    /\ UNCHANGED <<syncVars, joinVars, distVars, lifeVars>>

NextKV == CallKeepGroup

SpecKV == InitKV /\ [][NextKV]_vars

\* C28: on a group whose keys and values columns are paired, KeepGroup
\* returns true if and only if for every pair (k_i, v_i) of the predicate
\* there is an index j with keys[j] equal to k_i and values[j] equal to v_i
\* byte for byte.
C28_KeepGroupIffEveryPairPresent ==
    (fcall.fn = "KeepGroup" /\ Len(fcall.keys) = Len(fcall.values)) =>
        (fcall.out <=>
            \A i \in 1..Len(fcall.a.keys) :
                \E j \in 1..Len(fcall.keys) :
                    /\ fcall.keys[j] = fcall.a.keys[i]
                    /\ fcall.values[j] = fcall.a.vals[i])

-----------------------------------------------------------------------------
(* Distributor.processPushResponse: the tallies of one replica response,   *)
(* whose k-th reason is about the trace at position indexes[k] of the      *)
(* request.  Trace indices count from 1.                                   *)

\* the loop over ErrorsByTrace from ringIndex on
RECURSIVE processErrorsByTrace(_, _, _, _, _)
processErrorsByTrace(ErrorsByTrace, numSuccess, lastErrorReason, indexes, ringIndex) ==
    IF ringIndex > Len(ErrorsByTrace)
    THEN [numSuccess |-> numSuccess, lastErrorReason |-> lastErrorReason]
    ELSE LET next_(t) == processErrorsByTrace(ErrorsByTrace, t.numSuccess,
                                              t.lastErrorReason, indexes, ringIndex + 1)
         IN  next_(tally(numSuccess, lastErrorReason, indexes[ringIndex],
                         ErrorsByTrace[ringIndex]))

\* takes the position in the response for the trace index
processPushResponseByRingIndex(ErrorsByTrace, numSuccess, lastErrorReason, numOfTraces, indexes) ==
    IF Len(ErrorsByTrace) = 0
    THEN [numSuccess      |-> [i \in 1..numOfTraces |->
                                 IF i <= Len(indexes)
                                 THEN numSuccess[i] + 1 ELSE numSuccess[i]],
          lastErrorReason |-> lastErrorReason]
    ELSE processErrorsByTrace(ErrorsByTrace, numSuccess, lastErrorReason,
                              [k \in 1..Len(indexes) |-> k], 1)

\* d.processPushResponse(pushResponse, numSuccessByTraceIndex,
\* lastErrorReasonByTraceIndex, numOfTraces, indexes)
processPushResponse(ErrorsByTrace, numSuccess, lastErrorReason, numOfTraces, indexes) ==
    IF Len(ErrorsByTrace) = 0
    THEN [numSuccess      |-> [i \in 1..numOfTraces |->
                                 IF \E k \in 1..Len(indexes) : indexes[k] = i
                                 THEN numSuccess[i] + 1 ELSE numSuccess[i]],
          lastErrorReason |-> lastErrorReason]
    ELSE processErrorsByTrace(ErrorsByTrace, numSuccess, lastErrorReason, indexes, 1)

-----------------------------------------------------------------------------
(* SpecPush: up to MaxPushes replica responses are processed, each for any *)
(* list of distinct traces of the request, with no ErrorsByTrace or with   *)
(* one reason per trace of the list.                                       *)

\* traces of the request
NumPushTraces == 3
\* responses processed
MaxPushes == 2

IndexLists ==
    UNION { { f \in [1..n -> 1..NumPushTraces] :
                \A a, b \in 1..n : f[a] = f[b] => a = b } : n \in 0..NumPushTraces }

InitPush ==
    /\ fcall = [numSuccessByTraceIndex      |-> [i \in 1..NumPushTraces |-> 0],
                lastErrorReasonByTraceIndex |-> [i \in 1..NumPushTraces |-> NO_ERROR],
                pushes                      |-> 0,
                call                        |-> Nil]
    /\ c = Nil /\ column = Nil /\ last = Nil /\ hist = Nil
    /\ node = Nil /\ children = Nil /\ jlast = Nil /\ jhist = Nil
    /\ dist = Nil /\ rebatch = Nil /\ limiter = Nil
    /\ tree = Nil /\ ctx = Nil

\* one replica response is processed; call keeps its arguments and the
\* tallies it found
ProcessPushResponse ==
    /\ fcall.pushes < MaxPushes
    /\ \E indexes \in IndexLists :
         \E ErrorsByTrace \in {<<>>} \cup [1..Len(indexes) -> PushErrorReason] :
            LET t == processPushResponse(ErrorsByTrace, fcall.numSuccessByTraceIndex,
                                         fcall.lastErrorReasonByTraceIndex,
                                         NumPushTraces, indexes)
            IN  fcall' = [numSuccessByTraceIndex      |-> t.numSuccess,
                          lastErrorReasonByTraceIndex |-> t.lastErrorReason,
                          pushes                      |-> fcall.pushes + 1,
                          call |-> Some([ErrorsByTrace |-> ErrorsByTrace,
                                         indexes       |-> indexes,
                                         numSuccess    |-> fcall.numSuccessByTraceIndex,
                                         lastErrorReason |->
                                             fcall.lastErrorReasonByTraceIndex])]
    /\ UNCHANGED <<syncVars, joinVars, distVars, lifeVars>>

NextPush == ProcessPushResponse

SpecPush == InitPush /\ [][NextPush]_vars

\* the cases of TestProcessIngesterPushByteResponse: five traces, no tallies
\* yet; the response, the index list, the successes and last errors expected
PushTestCases ==
    << [pushErrorByTrace |-> <<NO_ERROR, NO_ERROR, NO_ERROR>>,
        indexes |-> <<1, 2, 3>>,
        expectedSuccessIndex |-> <<1, 1, 1, 0, 0>>,
        expectedLastErrorIndex |-> <<NO_ERROR, NO_ERROR, NO_ERROR, NO_ERROR, NO_ERROR>>],
       [pushErrorByTrace |-> <<>>,
        indexes |-> <<2, 3, 4>>,
        expectedSuccessIndex |-> <<0, 1, 1, 1, 0>>,
        expectedLastErrorIndex |-> <<NO_ERROR, NO_ERROR, NO_ERROR, NO_ERROR, NO_ERROR>>],
       [pushErrorByTrace |-> <<TRACE_TOO_LARGE, TRACE_TOO_LARGE, TRACE_TOO_LARGE>>,
        indexes |-> <<1, 2, 3>>,
        expectedSuccessIndex |-> <<0, 0, 0, 0, 0>>,
        expectedLastErrorIndex |->
            <<TRACE_TOO_LARGE, TRACE_TOO_LARGE, TRACE_TOO_LARGE, NO_ERROR, NO_ERROR>>],
       [pushErrorByTrace |-> <<TRACE_TOO_LARGE, MAX_LIVE_TRACES, NO_ERROR>>,
        indexes |-> <<1, 3, 5>>,
        expectedSuccessIndex |-> <<0, 0, 0, 0, 1>>,
        expectedLastErrorIndex |->
            <<TRACE_TOO_LARGE, NO_ERROR, MAX_LIVE_TRACES, NO_ERROR, NO_ERROR>>] >>

TestProcessIngesterPushByteResponse ==
    \A n \in 1..Len(PushTestCases) :
        LET tc == PushTestCases[n]
            t  == processPushResponse(tc.pushErrorByTrace, [i \in 1..5 |-> 0],
                                      [i \in 1..5 |-> NO_ERROR], 5, tc.indexes)
        IN  /\ t.numSuccess = tc.expectedSuccessIndex
            /\ t.lastErrorReason = tc.expectedLastErrorIndex

\* C29: processing one replica response updates the tallies only of the
\* traces named in the replica's index list: with an empty ErrorsByTrace
\* every named trace gets one more success; otherwise the k-th reason applies
\* to the k-th named trace (NO_ERROR adds a success, any other reason
\* overwrites the last error of the trace); the success counts and last
\* errors of the traces not named are unchanged.  The test's cases come out
\* as the test expects.
C29_OnlyNamedTracesTallied ==
    /\ TestProcessIngesterPushByteResponse
    /\ fcall.call # Nil =>
          LET call == Get(fcall.call)
              errs == call.ErrorsByTrace
          IN  \A i \in 1..NumPushTraces :
                LET named  == { k \in 1..Len(call.indexes) : call.indexes[k] = i }
                    k      == CHOOSE k \in named : TRUE
                    gained == named # {} /\ (errs = <<>> \/ errs[k] = NO_ERROR)
                IN  /\ fcall.numSuccessByTraceIndex[i] =
                          call.numSuccess[i] + (IF gained THEN 1 ELSE 0)
                    /\ fcall.lastErrorReasonByTraceIndex[i] =
                          (IF named # {} /\ ~gained THEN errs[k]
                           ELSE call.lastErrorReason[i])

\* a response with reasons for two traces overwrites the last error of one,
\* adds a success to the other and leaves the third, which has an error and
\* a success from before, as it was
C29_Witness ==
    /\ fcall.call # Nil
    /\ LET call == Get(fcall.call)
       IN  /\ Len(call.indexes) = 2 /\ Len(call.ErrorsByTrace) = 2
           /\ \E i \in 1..NumPushTraces :
                 /\ \A k \in 1..2 : call.indexes[k] # i
                 /\ call.lastErrorReason[i] # NO_ERROR
           /\ \E k \in 1..2 :
                 /\ call.ErrorsByTrace[k] = MAX_LIVE_TRACES
                 /\ call.lastErrorReason[call.indexes[k]] = TRACE_TOO_LARGE
           /\ \E k \in 1..2 : call.ErrorsByTrace[k] = NO_ERROR

-----------------------------------------------------------------------------
(* The attribute walk of requestsByTraceID: every attribute of the         *)
(* resource, the scope, the span, its events and its links goes through    *)
(* processAttributes with the cap maxAttrBytes.  A string is a sequence of *)
(* bytes; a value is a StringValue, a BytesValue or an IntValue.           *)

StringValue(str) == [kind |-> "StringValue", v |-> str]
BytesValue(b) == [kind |-> "BytesValue", v |-> b]
IntValue(n) == [kind |-> "IntValue", v |-> n]
MakeAttribute(key, value) == [Key |-> key, Value |-> value]

\* s[:n], for n within the string
FirstBytes(s, n) == SubSeq(s, 1, n)

\* one attribute: what it becomes and how many truncations it took
truncateAttribute(attr, maxAttrSize) ==
    LET longKey   == Len(attr.Key) > maxAttrSize
        longValue == attr.Value.kind = "StringValue" /\ Len(attr.Value.v) > maxAttrSize
    IN  [attr  |-> [Key   |-> IF longKey THEN FirstBytes(attr.Key, maxAttrSize)
                              ELSE attr.Key,
                    Value |-> IF longValue
                              THEN StringValue(FirstBytes(attr.Value.v, maxAttrSize))
                              ELSE attr.Value],
         count |-> (IF longKey THEN 1 ELSE 0) + (IF longValue THEN 1 ELSE 0)]

RECURSIVE SumCounts(_, _)
SumCounts(counts, n) == IF n = 0 THEN 0 ELSE counts[n] + SumCounts(counts, n - 1)

\* counts an attribute once, whatever was cut
processAttributesPerAttribute(attributes, maxAttrSize) ==
    LET t == [i \in 1..Len(attributes) |-> truncateAttribute(attributes[i], maxAttrSize)]
    IN  [attributes |-> [i \in 1..Len(attributes) |-> t[i].attr],
         count      |-> SumCounts([i \in 1..Len(attributes) |->
                                     IF t[i].count > 0 THEN 1 ELSE 0], Len(attributes))]

\* processAttributes(attributes, maxAttrSize): the attributes in place, and
\* the count returned
processAttributes(attributes, maxAttrSize) ==
    LET t == [i \in 1..Len(attributes) |-> truncateAttribute(attributes[i], maxAttrSize)]
    IN  [attributes |-> [i \in 1..Len(attributes) |-> t[i].attr],
         count      |-> SumCounts([i \in 1..Len(attributes) |-> t[i].count],
                                  Len(attributes))]

\* where a batch carries attributes
AttributePlaces == <<"Resource", "Scope", "Span", "Event", "Link">>

\* the walk over one batch: the batch rebatched and truncatedAttributeCount
rebatchAttributes(batch, maxAttrBytes) ==
    LET t == [p \in DOMAIN batch |-> processAttributes(batch[p], maxAttrBytes)]
    IN  [batch          |-> [p \in DOMAIN batch |-> t[p].attributes],
         truncatedCount |-> SumCounts([n \in 1..Len(AttributePlaces) |->
                                         t[AttributePlaces[n]].count],
                                      Len(AttributePlaces))]

-----------------------------------------------------------------------------
(* SpecAttr: one batch, with no attribute or one attribute at each place,  *)
(* is rebatched under a cap of 1..MaxAttrBytes bytes.                      *)

MaxAttrBytes == 2

\* a long value, a long key, a long key with bytes for its value, a long key
\* with a long value, and a number
Attributes ==
    { MakeAttribute(<<1>>, StringValue(<<1, 2, 3>>)),
      MakeAttribute(<<1, 2, 3>>, StringValue(<<1>>)),
      MakeAttribute(<<1, 2>>, BytesValue(<<1, 2, 3>>)),
      MakeAttribute(<<3, 2, 1>>, StringValue(<<3, 1, 2>>)),
      MakeAttribute(<<2>>, IntValue(7)) }

AttributeLists == {<<>>} \cup { <<a>> : a \in Attributes }

InitAttr ==
    /\ \E batch \in [{AttributePlaces[n] : n \in 1..Len(AttributePlaces)} -> AttributeLists],
          maxAttrBytes \in 1..MaxAttrBytes :
          fcall = [fn |-> "requestsByTraceID", batch |-> batch,
                   maxAttrBytes |-> maxAttrBytes, out |-> Nil]
    /\ c = Nil /\ column = Nil /\ last = Nil /\ hist = Nil
    /\ node = Nil /\ children = Nil /\ jlast = Nil /\ jhist = Nil
    /\ dist = Nil /\ rebatch = Nil /\ limiter = Nil
    /\ tree = Nil /\ ctx = Nil

RebatchAttributes ==
    /\ fcall.out = Nil
    /\ fcall' = [fcall EXCEPT !.out = Some(rebatchAttributes(fcall.batch,
                                                             fcall.maxAttrBytes))]
    /\ UNCHANGED <<syncVars, joinVars, distVars, lifeVars>>

NextAttr == RebatchAttributes

SpecAttr == InitAttr /\ [][NextAttr]_vars

\* TestProcessAttributes in small: a long value and a long key at each of the
\* five places, three bytes long under a cap of two, make ten truncations,
\* and each comes out as its first two bytes
TestProcessAttributes ==
    LET longString == <<1, 2, 3>>
        attrs == << MakeAttribute(<<9>>, StringValue(longString)),
                    MakeAttribute(longString, StringValue(<<8>>)) >>
        out   == rebatchAttributes([p \in {AttributePlaces[n] :
                                             n \in 1..Len(AttributePlaces)} |-> attrs], 2)
    IN  /\ out.truncatedCount = 10
        /\ \A n \in 1..Len(AttributePlaces) :
              /\ out.batch[AttributePlaces[n]][1].Value.v = FirstBytes(longString, 2)
              /\ out.batch[AttributePlaces[n]][2].Key = FirstBytes(longString, 2)

\* the bytes of a string that a cap of n bytes leaves
Capped(str, n) == IF Len(str) > n THEN SubSeq(str, 1, n) ELSE str

-----------------------------------------------------------------------------
(* Exhaustion                                                              *)

\* C35: exhaustion is final: once Next or SeekTo on a SyncIterator has
\* returned None, the next call of Next or SeekTo on it returns None too,
\* and so does every later one.
C35_ExhaustionIsFinal ==
    [][(last.op \in {"Next", "SeekTo"} /\ last.res = Nil) => last'.res = Nil]_vars

-----------------------------------------------------------------------------
(* The order of the filter's questions                                     *)

\* the values of the pages of accepted chunks that KeepPage rejects, and the
\* values of the chunks that KeepColumnChunk rejects
InRejectedPage ==
    { column[g].cc.pages[p].values[k].id :
        <<g, p, k>> \in { q \in (1..Len(column)) \X (1..MaxRows) \X (1..(3 * MaxRows)) :
                            /\ q[2] <= Len(column[q[1]].cc.pages)
                            /\ q[3] <= Len(column[q[1]].cc.pages[q[2]].values)
                            /\ column[q[1]].cc.keep
                            /\ ~column[q[1]].cc.pages[q[2]].keep } }

InRejectedChunk ==
    { column[g].cc.pages[p].values[k].id :
        <<g, p, k>> \in { q \in (1..Len(column)) \X (1..MaxRows) \X (1..(3 * MaxRows)) :
                            /\ q[2] <= Len(column[q[1]].cc.pages)
                            /\ q[3] <= Len(column[q[1]].cc.pages[q[2]].values)
                            /\ ~column[q[1]].cc.keep } }

\* C37: a SyncIterator consults KeepColumnChunk before it opens any page of
\* a chunk and KeepPage before it reads any value of a page: a value is passed
\* to KeepValue only if its chunk and its page were both accepted, no page
\* is read from a rejected chunk and no value from a rejected page, in Next
\* and in SeekTo.
C37_FilterAskedChunkPageValue ==
    ~c.held.offFilter

\* a SeekTo went past a rejected page and a rejected chunk to a result
C37_Witness ==
    /\ c.hasFilter
    /\ last.op = "SeekTo" /\ last.res # Nil
    /\ \E k \in InRejectedPage : k < ResultId(last.res)
    /\ \E k \in InRejectedChunk : k < ResultId(last.res)

-----------------------------------------------------------------------------
(* SpecOpt: two SyncIterators over one column, c with the default maximum  *)
(* definition level and fcall.it with SyncIteratorOptMaxDefinitionLevel(m) *)
(* for an m that is at least the largest definition level of the column;  *)
(* each Next and each SeekTo is called on both.                            *)

\* the largest maximum definition level configured
OptMaxLevel == 2
\* most rows of a column
OptRows == 2

OptColumns == { rgs \in Columns : rowsBefore(rgs, Len(rgs) + 1) <= OptRows }

\* sets the level below the one asked for
SyncIteratorOptMaxDefinitionLevelBelow(it, maxDefinitionLevel) ==
    [it EXCEPT !.maxDefinitionLevel = maxDefinitionLevel - 1]

\* SyncIteratorOptMaxDefinitionLevel(maxDefinitionLevel) applied to the
\* iterator, iters.go 366-373
SyncIteratorOptMaxDefinitionLevel(it, maxDefinitionLevel) ==
    [it EXCEPT !.maxDefinitionLevel = maxDefinitionLevel]

\* the largest definition level that occurs in the column
LargestDefinitionLevel(rgs) ==
    LET values == ColumnValues(rgs)
    IN  CHOOSE d \in 0..MaxDefinitionLevel :
            /\ \A k \in 1..Len(values) : values[k].def <= d
            /\ \E k \in 1..Len(values) : values[k].def = d

InitOpt ==
    /\ column \in OptColumns
    /\ \E hasFilter \in BOOLEAN :
         /\ (~hasFilter => AllKept(column))
         /\ c = NewSyncIterator(column, hasFilter, ReadSize, MaxDefinitionLevel)
         /\ \E maxDefinitionLevel \in LargestDefinitionLevel(column)..OptMaxLevel :
              fcall = [it  |-> SyncIteratorOptMaxDefinitionLevel(
                                   NewSyncIterator(column, hasFilter, ReadSize,
                                                   MaxDefinitionLevel),
                                   maxDefinitionLevel),
                       res |-> Nil]
    /\ last = [op |-> "New", to |-> EmptyRowNumber, d |-> 0, res |-> Nil]
    /\ hist = Nil
    /\ node = Nil /\ children = Nil /\ jlast = Nil /\ jhist = Nil
    /\ dist = Nil /\ rebatch = Nil /\ limiter = Nil
    /\ tree = Nil /\ ctx = Nil

OptNext ==
    LET both(r, o) ==
            /\ c' = r.it
            /\ last' = [op |-> "Next", to |-> EmptyRowNumber, d |-> 0, res |-> r.res]
            /\ fcall' = [it |-> o.it, res |-> o.res]
    IN  /\ both(SyncNext(c), SyncNext(fcall.it))
        /\ UNCHANGED <<column, hist>>
        /\ UNCHANGED <<joinVars, distVars, lifeVars>>

OptSeekTo ==
    \E d \in SeekLevels : \E to \in SeekTargets(d) :
        LET both(r, o) ==
                /\ c' = r.it
                /\ last' = [op |-> "SeekTo", to |-> to, d |-> d, res |-> r.res]
                /\ fcall' = [it |-> o.it, res |-> o.res]
        IN  /\ both(SyncSeekTo(c, to, d), SyncSeekTo(fcall.it, to, d))
            /\ UNCHANGED <<column, hist>>
            /\ UNCHANGED <<joinVars, distVars, lifeVars>>

NextOpt == OptNext \/ OptSeekTo

SpecOpt == InitOpt /\ [][NextOpt]_vars

\* C38: the maximum definition level option is only an optimisation: with
\* any configured value that is at least the largest definition level of the
\* column, a SyncIterator returns, for any sequence of Next and SeekTo, the
\* results it returns with the default value 7, with the same row numbers in
\* all 8 positions.
C38_MaxDefinitionLevelOnlyOptimises ==
    fcall.res = last.res

\* the iterator configured with the largest level of the column, 1, has
\* read values of level 1 and returns the row number of a value of level 0
C38_Witness ==
    /\ fcall.it.maxDefinitionLevel = 1
    /\ last.res # Nil /\ fcall.res # Nil
    /\ ResultId(fcall.res) > 1
    /\ Flat[ResultId(fcall.res)].def = 0
    /\ Flat[ResultId(fcall.res) - 1].def = 1
    /\ Get(fcall.res).RowNumber[2] = -1

-----------------------------------------------------------------------------
(* SeekTo of a composite against repeated Next                             *)

\* what repeated Next on the composite n returns first with a row number
\* that is not before t at level d, nil when it returns nil before that
RECURSIVE SeekByNext(_, _, _)
SeekByNext(n, t, d) ==
    LET first(r) ==
            IF r.res = Nil THEN Nil
            ELSE IF CompareRowNumbers(d, Get(r.res).RowNumber, TruncateRowNumber(d, t)) >= 0
                 THEN r.res
                 ELSE SeekByNext(AfterCall(r.iter), t, d)
    IN  first(IterNext(n))

\* both nil, or the same row number with the same entries in any order
SameResult(a, b) ==
    IF a = Nil \/ b = Nil THEN a = b
    ELSE /\ Get(a).RowNumber = Get(b).RowNumber
         /\ EntrySet(Get(a)) = EntrySet(Get(b))
         /\ Len(Get(a).Entries) = Len(Get(b).Entries)

\* C34: SeekTo(r, d2) on a JoinIterator, LeftJoinIterator or UnionIterator
\* returns the first result that the composite would have produced by
\* repeated Next whose row number is not before r at level d2: no matching
\* group at or after r is lost and no result before r is returned.
C34_SeekToIsRepeatedNext ==
    [][jlast'.op = "SeekTo"
          => SameResult(jlast'.res, SeekByNext(node, jlast'.to, jlast'.d))]_vars


\* the same for a SeekTo at a level no deeper than the level of the
\* composite, d2 <= d, where the target cuts no group
SeekToIsRepeatedNextAtGroupLevel ==
    [][(jlast'.op = "SeekTo" /\ jlast'.d <= node.definitionLevel)
          => SameResult(jlast'.res, SeekByNext(node, jlast'.to, jlast'.d))]_vars


-----------------------------------------------------------------------------
(* SpecLoop: the calls of SpecJoin taken one pass of the outer loop at a   *)
(* time.  fcall.pc is "loop" while a call is inside the loop of Next;      *)
(* fcall.moved: a child has advanced since the call began or the loop last *)
(* started again; fcall.stalled: the loop of the call has started again    *)
(* with no child advanced since.                                           *)

\* how far a child has been read: the results it has yielded, and one more
\* once it has said that it has no more
ChildPosition(iter, peek) ==
    iter.pos + (IF peek = Nil /\ iter.pos = Len(children[iter.id]) THEN 1 ELSE 0)

RECURSIVE SumPos(_, _)
SumPos(iters, peeks) ==
    IF iters = <<>> THEN 0
    ELSE ChildPosition(Head(iters), Head(peeks)) + SumPos(Tail(iters), Tail(peeks))

\* how far the children of a composite have been read
Position(n) ==
    IF n.kind = "leftjoin"
    THEN SumPos(n.required, n.peeksRequired) + SumPos(n.optional, n.peeksOptional)
    ELSE SumPos(n.iters, n.peeks)

\* the peeked result of the first slot
FirstPeek(n) == IF n.kind = "leftjoin" THEN n.peeksRequired[1] ELSE n.peeks[1]

\* the rows of the universe that come before the row of the first slot, at
\* the level of the composite
FirstRank(n) ==
    IF FirstPeek(n) = Nil THEN 0
    ELSE Cardinality({ i \in 1..Len(Universe) :
                         CompareRowNumbers(n.definitionLevel, Universe[i],
                                           Get(FirstPeek(n)).RowNumber) = -1 })

RECURSIVE SumLen(_)
SumLen(k) == IF k = 0 THEN 0 ELSE Len(children[k]) + 1 + SumLen(k - 1)

\* the variant of the outer loop: what the children have left to yield, and
\* below that how far the row of the first slot is from the last row
Variant(n) ==
    (SumLen(Len(children)) - Position(n)) * (Len(Universe) + 1)
      + (Len(Universe) - FirstRank(n))

\* one pass of the outer loop of Next of the composite n
IterPass(n) ==
    IF n.kind = "join" THEN JoinPass(n)
    ELSE IF n.kind = "leftjoin" THEN LeftJoinPass(n)
    ELSE UnionPass(n)

\* SeekTo up to its call of Next: the children are sought; stop: SeekTo
\* returns without calling Next
SeekToStart(n, t, d) ==
    IF n.kind = "join"
    THEN LET sought(s) == [it |-> s, stop |-> s.err # Nil]
         IN  sought(joinSeekAll(n, t, d))
    ELSE IF n.kind = "leftjoin"
    THEN LET soughtOptional(o) == [it |-> o, stop |-> o.err # Nil]
             soughtRequired(s) ==
                 IF s.it.err # Nil \/ s.done THEN [it |-> s.it, stop |-> TRUE]
                 ELSE soughtOptional(seekAllOptional(s.it, t, d))
         IN  soughtRequired(seekAllRequired(n, t, d))
    ELSE LET sought(s) == [it |-> s, stop |-> s.err # Nil]
         IN  sought(unionSeekLoop(n, 1, TruncateRowNumber(d, t), d))

InitLoop ==
    /\ \E kind \in {"join", "leftjoin", "union"}, d \in JoinLevels :
         \/ /\ kind = "join"
            /\ children \in [1..2 -> ChildLists]
            /\ \E pred \in {Nil, GroupPred(1, 2)} :
                 node = NewJoinIterator(d, <<1, 2>>, pred)
         \/ /\ kind = "leftjoin"
            /\ children \in [1..3 -> ChildLists]
            /\ \E pred \in {Nil, GroupPred(1, 2), GroupPred(3, 1)} :
                 node = Get(NewLeftJoinIterator(d, RequiredIds, OptionalIds, pred).j)
         \/ /\ kind = "union"
            /\ children \in [1..2 -> ChildLists]
            /\ \E pred \in {Nil, GroupPred(1, 1)} :
                 node = NewUnionIterator(d, <<1, 2>>, pred)
    /\ jlast = [op |-> "New", res |-> Nil, err |-> Nil]
    /\ fcall = [pc |-> "idle", moved |-> FALSE, stalled |-> FALSE]
    /\ jhist = Nil
    /\ c = Nil /\ column = Nil /\ last = Nil /\ hist = Nil
    /\ dist = Nil /\ rebatch = Nil /\ limiter = Nil
    /\ tree = Nil /\ ctx = Nil

\* the call returns
LoopReturn(it, op, res, err) ==
    /\ node' = AfterCall(it)
    /\ jlast' = [op |-> op, res |-> res, err |-> err]
    /\ fcall' = [fcall EXCEPT !.pc = "idle", !.moved = FALSE]

\* Next is called and enters its loop
LoopNext ==
    /\ fcall.pc = "idle"
    /\ node' = node
    /\ jlast' = [op |-> "Next", res |-> Nil, err |-> Nil]
    /\ fcall' = [pc |-> "loop", moved |-> FALSE, stalled |-> FALSE]
    /\ UNCHANGED <<children, jhist, syncVars, distVars, lifeVars>>

\* SeekTo is called, seeks its children and returns or enters the loop of Next
LoopSeekTo ==
    /\ fcall.pc = "idle"
    /\ \E td \in JSeekTargets :
         LET start(s) ==
                 IF s.stop
                 THEN /\ node' = AfterCall(s.it)
                      /\ jlast' = [op |-> "SeekTo", res |-> Nil, err |-> s.it.err]
                      /\ fcall' = [pc |-> "idle", moved |-> FALSE, stalled |-> FALSE]
                 ELSE /\ node' = s.it
                      /\ jlast' = [op |-> "SeekTo", res |-> Nil, err |-> Nil]
                      /\ fcall' = [pc |-> "loop", stalled |-> FALSE,
                                   moved |-> Position(s.it) > Position(node)]
         IN  start(SeekToStart(node, td[1], td[2]))
    /\ UNCHANGED <<children, jhist, syncVars, distVars, lifeVars>>

\* one pass of the loop: the call returns, or the loop starts again
LoopPass ==
    /\ fcall.pc = "loop"
    /\ LET passed(p) ==
               IF p.again
               THEN /\ node' = p.it
                    /\ jlast' = jlast
                    /\ fcall' = [fcall EXCEPT
                                   !.moved = FALSE,
                                   !.stalled = @ \/ (~fcall.moved
                                                      /\ Position(p.it) = Position(node))]
               ELSE LoopReturn(p.it, jlast.op, p.res, p.err)
       IN  passed(IterPass(node))
    /\ UNCHANGED <<children, jhist, syncVars, distVars, lifeVars>>

NextLoop ==
    \/ LoopNext
    \/ LoopSeekTo
    \/ LoopPass

SpecLoop == InitLoop /\ [][NextLoop]_vars

\* C36 as stated: whenever the loop starts again, a child has advanced since
\* the call began or the loop last started again
C36_RestartHasAdvanced == ~fcall.stalled

\* C36: every call of Next or SeekTo on a JoinIterator, a LeftJoinIterator
\* with a required child or a UnionIterator returns: the variant of the loop
\* is a natural number, and it is smaller whenever the loop starts again (a
\* child has advanced, or a child with a later row has been swapped into the
\* first slot)
C36_CallsTerminate ==
    [][(fcall.pc = "loop" /\ fcall'.pc = "loop")
          => (Variant(node') >= 0 /\ Variant(node') < Variant(node))]_vars

\* a call that started its loop again without advancing a child has
\* returned a result
C36_Witness ==
    /\ fcall.pc = "idle"
    /\ fcall.stalled
    /\ jlast.res # Nil


-----------------------------------------------------------------------------
(* cachingWare, sync_handler_cache.go: a middleware that answers a request *)
(* from the frontend cache when the body of its response is stored under   *)
(* the request's cache key, and stores the body of a downstream response.  *)
(* A body is a sequence of bytes; a nil slice is the empty sequence.  The  *)
(* cache behind the frontendCache is a map from keys to bodies.            *)

TempoCacheHit == "HIT"

TempoCacheMiss == "MISS"

HeaderAcceptJSON == "application/json"

HeaderAcceptProtobuf == "application/protobuf"

StatusOK == 200

\* cache.Cache.Store of the cache behind the frontendCache: one key
CacheStore(m, key, buffer) == [m EXCEPT ![key] = Some(buffer)]

\* cache.Cache.FetchKey
CacheFetchKey(m, key) ==
    IF m[key] = Nil THEN [buf |-> <<>>, found |-> FALSE]
    ELSE [buf |-> Get(m[key]), found |-> TRUE]

\* newFrontendCache: nil when the provider is nil; the cache is empty and
\* has the maximum item size maxItemSize (0: none)
newFrontendCache(cacheProvider, cacheKeys, maxItemSize) ==
    IF cacheProvider = Nil THEN Nil
    ELSE Some([c |-> Some([k \in cacheKeys |-> Nil]), maxItemSize |-> maxItemSize])

\* frontendCache.store
store(fc, key, buffer) ==
    IF fc.c = Nil THEN fc
    ELSE IF key = "" THEN fc
    ELSE IF Len(buffer) = 0 THEN fc
    ELSE [fc EXCEPT !.c = Some(CacheStore(Get(@), key, buffer))]

\* the cache never finds the key
fetchBytesNotFound(fc, key) == <<>>

\* frontendCache.fetchBytes
fetchBytes(fc, key) ==
    IF fc.c = Nil THEN <<>>
    ELSE IF Len(key) = 0 THEN <<>>
    ELSE LET fetched(f) == IF ~f.found THEN <<>> ELSE f.buf
         IN  fetched(CacheFetchKey(Get(fc.c), key))

determineContentType(body) ==
    IF body[1] = "{" THEN HeaderAcceptJSON ELSE HeaderAcceptProtobuf

shouldCache(statusCode) == statusCode \div 100 = 2

\* api.ReadBodyToBuffer: the whole body, or the error of the read
ReadBodyToBuffer(resp, readErr) ==
    IF readErr THEN [buffer |-> <<>>, err |-> Some("read")]
    ELSE [buffer |-> resp.Body, err |-> Nil]

\* what RoundTrip returns: the response, the error, the middleware with its
\* cache, and as ghosts the calls of the next round-tripper and the buffer
\* handed to store
Tripped(cw, resp, err, nextCalls, handed) ==
    [cw |-> cw, resp |-> resp, err |-> err, nextCalls |-> nextCalls, handed |-> handed]

\* cachingWare.RoundTrip; down is what next.RoundTrip(req) returns, and
\* whether the read of the body of that response fails
RoundTrip(cw, req, down) ==
    IF cw.cache = Nil THEN Tripped(cw, down.resp, down.err, 1, Nil)
    ELSE
    LET key == req.CacheKey
        body == IF Len(key) > 0 THEN fetchBytes(Get(cw.cache), key) ELSE <<>>
        \* the cache miss header on every response that is not from the cache
        resp == IF down.resp # Nil
                THEN Some([Get(down.resp) EXCEPT !.Header.TempoCache = Some(TempoCacheMiss)])
                ELSE Nil
        maxItemSize == Get(cw.cache).maxItemSize
        read(b) ==
            IF b.err # Nil THEN Tripped(cw, resp, Some("failed to cache"), 1, Nil)
            ELSE Tripped([cw EXCEPT !.cache = Some(store(Get(@), key, b.buffer))],
                         Some([Get(resp) EXCEPT !.Body = b.buffer]), Nil, 1,
                         Some(b.buffer))
    IN  IF Len(key) > 0 /\ Len(body) > 0
        THEN Tripped(cw,
                     Some([Header        |-> [ContentType |-> Some(determineContentType(body)),
                                              TempoCache  |-> Some(TempoCacheHit)],
                           StatusCode    |-> StatusOK,
                           Body          |-> body,
                           ContentLength |-> Len(body)]),
                     Nil, 0, Nil)
        ELSE IF down.err # Nil THEN Tripped(cw, resp, down.err, 1, Nil)
        ELSE IF ~shouldCache(Get(resp).StatusCode) THEN Tripped(cw, resp, Nil, 1, Nil)
        ELSE IF Len(key) > 0
        THEN IF maxItemSize > 0 /\ Get(resp).ContentLength > maxItemSize
             THEN Tripped(cw, resp, Nil, 1, Nil)
             ELSE read(ReadBodyToBuffer(Get(resp), down.readErr))
        ELSE Tripped(cw, resp, Nil, 1, Nil)

\* NewCachingWare: the middleware around next
NewCachingWare(cacheProvider, cacheKeys, maxItemSize) ==
    [cache |-> newFrontendCache(cacheProvider, cacheKeys, maxItemSize)]

-----------------------------------------------------------------------------
(* SpecCache: one cachingWare, over a cache or over none, through any      *)
(* sequence of requests and downstream responses, and calls of store and   *)
(* fetchBytes on its frontendCache.  fcall.cw is the middleware,           *)
(* fcall.written the body last handed to the cache under each key, and     *)
(* fcall.last the last call: what the cache held under its key before it   *)
(* (held), what came back, and whether the call put the downstream body    *)
(* into the cache (stored).                                                *)

MaxBodyLen == 2
MaxMaxItemSize == 1

BodyBytes == {"{", "x"}

Bodies == UNION { [1..n -> BodyBytes] : n \in 0..MaxBodyLen }

CacheKeys == {"a", "b"}

RequestKeys == CacheKeys \cup {""}

\* the responses of the next round-tripper: the length is declared or
\* unknown (-1)
Responses ==
    { [Header        |-> [ContentType |-> Nil, TempoCache |-> Nil],
       StatusCode    |-> s,
       Body          |-> b,
       ContentLength |-> n] :
        s \in {199, 200, 299, 300}, b \in Bodies, n \in -1..MaxBodyLen }

\* the responses whose declared length is the length of the body
Declared == { r \in Responses : r.ContentLength = Len(r.Body) }

\* what the next round-tripper returns: a response whose length is declared
\* or unknown, an error, or both; readErr: the read of the body will fail
Downstream ==
    { [resp |-> Some(r), err |-> Nil, readErr |-> FALSE] :
        r \in { x \in Responses : x.ContentLength \in {-1, Len(x.Body)} } }
      \cup { [resp |-> Some(r), err |-> Nil, readErr |-> TRUE] :
                r \in { x \in Declared : x.StatusCode = 200 } }
      \cup { [resp |-> Nil, err |-> Some("downstream"), readErr |-> FALSE] }
      \cup { [resp |-> Some(r), err |-> Some("downstream"), readErr |-> FALSE] :
                r \in { x \in Declared : x.StatusCode = 200 } }

\* what the cache holds under a key
Held(cw, key) ==
    IF cw.cache = Nil \/ key = "" THEN Nil ELSE Get(Get(cw.cache).c)[key]

InitCache ==
    /\ \E cacheProvider \in {Nil, Some("mock")}, maxItemSize \in 0..MaxMaxItemSize :
         fcall = [cw      |-> NewCachingWare(cacheProvider, CacheKeys, maxItemSize),
                  written |-> [k \in CacheKeys |-> Nil],
                  last    |-> [op |-> "New"]]
    /\ c = Nil /\ column = Nil /\ last = Nil /\ hist = Nil
    /\ node = Nil /\ children = Nil /\ jlast = Nil /\ jhist = Nil
    /\ dist = Nil /\ rebatch = Nil /\ limiter = Nil
    /\ tree = Nil /\ ctx = Nil

\* a request goes through the middleware
CachingWareRoundTrip ==
    /\ \E key \in RequestKeys, down \in Downstream :
         LET tripped(t) ==
                 fcall' = [cw      |-> t.cw,
                           written |-> IF t.handed # Nil /\ key # ""
                                          /\ Len(Get(t.handed)) > 0
                                       THEN [fcall.written EXCEPT ![key] = t.handed]
                                       ELSE fcall.written,
                           last    |-> [op |-> "RoundTrip", key |-> key,
                                        held |-> Held(fcall.cw, key), down |-> down,
                                        resp |-> t.resp, err |-> t.err,
                                        nextCalls |-> t.nextCalls,
                                        stored |-> t.handed # Nil
                                                   /\ Held(t.cw, key) = t.handed]]
         IN  tripped(RoundTrip(fcall.cw, [CacheKey |-> key], down))
    /\ UNCHANGED <<syncVars, joinVars, distVars, lifeVars>>

\* TestCacheCaches: a body is stored under a key
FrontendCacheStore ==
    /\ fcall.cw.cache # Nil
    /\ \E key \in RequestKeys, buffer \in Bodies :
         fcall' = [cw      |-> [fcall.cw EXCEPT !.cache = Some(store(Get(@), key, buffer))],
                   written |-> IF key # "" /\ Len(buffer) > 0
                               THEN [fcall.written EXCEPT ![key] = Some(buffer)]
                               ELSE fcall.written,
                   last    |-> [op |-> "store", key |-> key, buffer |-> buffer]]
    /\ UNCHANGED <<syncVars, joinVars, distVars, lifeVars>>

\* TestCacheCaches: the body under a key is fetched
FrontendCacheFetchBytes ==
    /\ fcall.cw.cache # Nil
    /\ \E key \in RequestKeys :
         fcall' = [fcall EXCEPT
                     !.last = [op |-> "fetchBytes", key |-> key,
                               buffer |-> fetchBytes(Get(fcall.cw.cache), key)]]
    /\ UNCHANGED <<syncVars, joinVars, distVars, lifeVars>>

NextCache ==
    \/ CachingWareRoundTrip
    \/ FrontendCacheStore
    \/ FrontendCacheFetchBytes

SpecCache == InitCache /\ [][NextCache]_vars

\* C32: a request whose cache key is not empty and has a non-empty body
\* stored under it gets a 200 response with exactly the stored bytes and the
\* cache-hit header, and the next round-tripper is not called; the body
\* handed to store under a key is what fetchBytes of that key returns
C32_StoredBodyAnswersRequest ==
    /\ (/\ fcall.last.op = "RoundTrip"
         /\ fcall.last.key # ""
         /\ fcall.last.held # Nil
         /\ Len(Get(fcall.last.held)) > 0)
          => /\ fcall.last.resp # Nil
             /\ fcall.last.err = Nil
             /\ Get(fcall.last.resp).StatusCode = 200
             /\ Get(fcall.last.resp).Body = Get(fcall.last.held)
             /\ Get(fcall.last.resp).Header.TempoCache = Some(TempoCacheHit)
             /\ fcall.last.nextCalls = 0
    /\ \A key \in CacheKeys :
          fcall.written[key] # Nil
            => fetchBytes(Get(fcall.cw.cache), key) = Get(fcall.written[key])

\* a request is answered from the cache with a body that an earlier request
\* put there
C32_Witness ==
    /\ fcall.last.op = "RoundTrip"
    /\ fcall.last.nextCalls = 0
    /\ fcall.last.held # Nil
    /\ fcall.last.held = fcall.written[fcall.last.key]
    /\ Len(Get(fcall.last.held)) = MaxBodyLen

\* C33: a downstream response enters the cache only if the downstream call
\* returned no error, the status is 2xx, the key and the body are not empty
\* and the body is not larger than the maximum item size of the cache
C33_OnlyCacheableResponsesStored ==
    (fcall.last.op = "RoundTrip" /\ fcall.last.stored)
      => /\ fcall.last.down.err = Nil
         /\ Get(fcall.last.down.resp).StatusCode \in 200..299
         /\ fcall.last.key # ""
         /\ Len(Get(fcall.last.down.resp).Body) > 0
         /\ (Get(fcall.cw.cache).maxItemSize > 0
               => Len(Get(fcall.last.down.resp).Body) <= Get(fcall.cw.cache).maxItemSize)

\* the same for the responses that declare their length
OnlyCacheableResponsesStoredWhenLengthDeclared ==
    (/\ fcall.last.op = "RoundTrip"
     /\ fcall.last.stored
     /\ Get(fcall.last.down.resp).ContentLength >= 0)
      => /\ fcall.last.down.err = Nil
         /\ Get(fcall.last.down.resp).StatusCode \in 200..299
         /\ fcall.last.key # ""
         /\ Len(Get(fcall.last.down.resp).Body) > 0
         /\ (Get(fcall.cw.cache).maxItemSize > 0
               => Len(Get(fcall.last.down.resp).Body) <= Get(fcall.cw.cache).maxItemSize)


-----------------------------------------------------------------------------
(* Fetch of a backend block, TestBackendBlockSearchFetchMetaData: the      *)
(* attribute lists of the spans that a FetchSpansRequest returns.  A trace *)
(* is a list of resources with one span each; a resource and a span map    *)
(* attribute names to values (Nil: no such attribute).  A condition names  *)
(* an attribute in a scope and, unless its op is "none", a value it is to  *)
(* equal.  The requests are those of makeReq: a span is returned when any  *)
(* condition matches.  Intrinsics but the duration are left out.           *)

AttributeScopeSpan == "span"

AttributeScopeResource == "resource"

AttributeScopeNone == "none"

NewScopedAttribute(scope, name) == [scope |-> scope, name |-> name]

IntrinsicDuration == [scope |-> "intrinsic", name |-> "duration"]

NewStaticNil == [kind |-> "nil"]

NewStatic(v) == [kind |-> "value", v |-> v]

Condition(scope, name, op, operand) ==
    [Attribute |-> NewScopedAttribute(scope, name), Op |-> op, Operand |-> operand]

\* the value satisfies the condition
Matches(cond, v) == cond.Op = "none" \/ v = cond.Operand

\* the entry of a condition in the attribute list of scope, for every
\* attribute named: nil when there is no such attribute
attrValAlways(attrs, scope, cond) ==
    << [a |-> NewScopedAttribute(scope, cond.Attribute.name),
        s |-> IF attrs[cond.Attribute.name] # Nil
                 /\ Matches(cond, Get(attrs[cond.Attribute.name]))
              THEN NewStatic(Get(attrs[cond.Attribute.name]))
              ELSE NewStaticNil] >>

\* the entry of a condition in the attribute list of scope: none when the
\* span or resource has no attribute of the name, its value when the
\* condition accepts it, nil when it does not
attrVal(attrs, scope, cond) ==
    IF attrs[cond.Attribute.name] = Nil THEN <<>>
    ELSE << [a |-> NewScopedAttribute(scope, cond.Attribute.name),
             s |-> IF Matches(cond, Get(attrs[cond.Attribute.name]))
                   THEN NewStatic(Get(attrs[cond.Attribute.name]))
                   ELSE NewStaticNil] >>

\* the entries of the conditions that look into scope (its own and the
\* unscoped ones)
RECURSIVE attrVals(_, _, _)
attrVals(attrs, scope, conds) ==
    IF conds = <<>> THEN <<>>
    ELSE (IF Head(conds).Attribute.scope \in {scope, AttributeScopeNone}
          THEN attrVal(attrs, scope, Head(conds))
          ELSE <<>>)
           \o attrVals(attrs, scope, Tail(conds))

\* a list holds a value that a condition asked for
AnyMatched(list) == \E i \in 1..Len(list) : list[i].s # NewStaticNil

\* the span of a resource as Fetch returns it
fetchSpan(rs, conds) ==
    [id            |-> rs.span.id,
     spanAttrs     |-> attrVals(rs.span.attrs, AttributeScopeSpan, conds)
                         \o << [a |-> IntrinsicDuration,
                                s |-> NewStatic(rs.span.durationNanos)] >>,
     resourceAttrs |-> attrVals(rs.resource, AttributeScopeResource, conds)]

\* Fetch: the spans that some condition matches, or all without conditions
RECURSIVE Fetch(_, _)
Fetch(trace, conds) ==
    IF trace = <<>> THEN <<>>
    ELSE LET fetched(sp) ==
                 IF conds = <<>>
                    \/ AnyMatched(SubSeq(sp.spanAttrs, 1, Len(sp.spanAttrs) - 1))
                    \/ AnyMatched(sp.resourceAttrs)
                 THEN <<sp>> ELSE <<>>
         IN  fetched(fetchSpan(Head(trace), conds)) \o Fetch(Tail(trace), conds)

-----------------------------------------------------------------------------
(* SpecFetch: Fetch over every trace of one resource and span with up to   *)
(* two attributes each, for every request of one or two conditions, and    *)
(* the cases of TestBackendBlockSearchFetchMetaData over its own trace:    *)
(* one fetch of each block.                                                *)

AttrNames == {"foo", "bar"}

AttrValues == {"a", "b"}

MaxConditions == 2

FetchTraces ==
    { << [resource |-> r, span |-> [id |-> 1, durationNanos |-> "1s", attrs |-> s]] >> :
        r \in [AttrNames -> {Nil} \cup { Some(v) : v \in AttrValues }],
        s \in [AttrNames -> {Nil} \cup { Some(v) : v \in AttrValues }] }

FetchConditions ==
    { Condition(scope, name, "none", "") :
        scope \in {AttributeScopeSpan, AttributeScopeResource, AttributeScopeNone},
        name \in AttrNames }
      \cup { Condition(scope, name, "=", v) :
               scope \in {AttributeScopeSpan, AttributeScopeResource, AttributeScopeNone},
               name \in AttrNames, v \in AttrValues }

FetchRequests == UNION { [1..n -> FetchConditions] : n \in 1..MaxConditions }

\* the names that the trace and the requests of the test use
TestNames == {"foo", "bar", "http.status_code", "float", "bool", "xyz"}

\* fullyPopulatedTestTrace, as far as the test shows it: the first resource
\* has foo, its span foo, bar, http.status_code, float and bool; the second
\* resource and span have none of the attributes asked for
wantTr ==
    << [resource |-> [n \in TestNames |-> IF n = "foo" THEN Some("abc") ELSE Nil],
        span     |-> [id |-> 1, durationNanos |-> "100s",
                      attrs |-> [n \in TestNames |->
                                   CASE n = "foo" -> Some("def")
                                     [] n = "bar" -> Some("123")
                                     [] n = "http.status_code" -> Some("500")
                                     [] n = "float" -> Some("456.78")
                                     [] n = "bool" -> Some("false")
                                     [] OTHER -> Nil]]],
       [resource |-> [n \in TestNames |-> Nil],
        span     |-> [id |-> 2, durationNanos |-> "0s",
                      attrs |-> [n \in TestNames |-> Nil]]] >>

Expected(a, v) == [a |-> a, s |-> IF v = Nil THEN NewStaticNil ELSE NewStatic(Get(v))]

ExpectedDuration == [a |-> IntrinsicDuration, s |-> NewStatic("100s")]

\* the cases of the test that ask for attributes: the request, and per span
\* expected its id and its attribute lists as sets
MetaTestCases ==
    << [req |-> << Condition(AttributeScopeSpan, "foo", "=", "bar"),
                   Condition(AttributeScopeSpan, "bar", "=", "123") >>,
        expectedResults |->
          { [id |-> 1,
             spanAttrs |-> { Expected(NewScopedAttribute(AttributeScopeSpan, "foo"), Nil),
                             Expected(NewScopedAttribute(AttributeScopeSpan, "bar"), Some("123")),
                             ExpectedDuration },
             resourceAttrs |-> {}] }],
       [req |-> << Condition(AttributeScopeResource, "foo", "=", "abc") >>,
        expectedResults |->
          { [id |-> 1,
             spanAttrs |-> { ExpectedDuration },
             resourceAttrs |->
               { Expected(NewScopedAttribute(AttributeScopeResource, "foo"), Some("abc")) }] }],
       [req |-> << Condition(AttributeScopeNone, "foo", "=", "xyz"),
                   Condition(AttributeScopeNone, "http.status_code", "=", "500") >>,
        expectedResults |->
          { [id |-> 1,
             spanAttrs |-> { Expected(NewScopedAttribute(AttributeScopeSpan, "foo"), Nil),
                             Expected(NewScopedAttribute(AttributeScopeSpan, "http.status_code"),
                                      Some("500")),
                             ExpectedDuration },
             resourceAttrs |->
               { Expected(NewScopedAttribute(AttributeScopeResource, "foo"), Nil) }] }],
       [req |-> << Condition(AttributeScopeNone, "foo", "none", ""),
                   Condition(AttributeScopeNone, "http.status_code", "none", ""),
                   Condition(AttributeScopeNone, "float", "none", ""),
                   Condition(AttributeScopeNone, "bool", "none", "") >>,
        expectedResults |->
          { [id |-> 1,
             spanAttrs |-> { Expected(NewScopedAttribute(AttributeScopeSpan, "foo"), Some("def")),
                             Expected(NewScopedAttribute(AttributeScopeSpan, "float"),
                                      Some("456.78")),
                             Expected(NewScopedAttribute(AttributeScopeSpan, "bool"),
                                      Some("false")),
                             Expected(NewScopedAttribute(AttributeScopeSpan, "http.status_code"),
                                      Some("500")),
                             ExpectedDuration },
             resourceAttrs |->
               { Expected(NewScopedAttribute(AttributeScopeResource, "foo"), Some("abc")) }] }],
       [req |-> << Condition(AttributeScopeNone, "xyz", "=", "xyz") >>,
        expectedResults |-> {}] >>

\* a list as the set of its entries
EntrySetOf(list) == { list[i] : i \in 1..Len(list) }

\* the spans returned, their attribute lists sorted away
Sorted(res) ==
    { [id            |-> res[i].id,
       spanAttrs     |-> EntrySetOf(res[i].spanAttrs),
       resourceAttrs |-> EntrySetOf(res[i].resourceAttrs)] : i \in 1..Len(res) }

InitFetch ==
    /\ \E trace \in FetchTraces :
         fcall = [op |-> "New", trace |-> trace, req |-> <<>>, res |-> <<>>,
                  expectedResults |-> {}]
    /\ c = Nil /\ column = Nil /\ last = Nil /\ hist = Nil
    /\ node = Nil /\ children = Nil /\ jlast = Nil /\ jhist = Nil
    /\ dist = Nil /\ rebatch = Nil /\ limiter = Nil
    /\ tree = Nil /\ ctx = Nil

\* b.Fetch(ctx, req, opts), its results drained
BlockFetch ==
    /\ fcall.op = "New"
    /\ \E req \in FetchRequests :
         fcall' = [fcall EXCEPT !.op = "Fetch", !.req = req,
                                !.res = Fetch(fcall.trace, req)]
    /\ UNCHANGED <<syncVars, joinVars, distVars, lifeVars>>

\* one case of the test
TestBackendBlockSearchFetchMetaData ==
    /\ fcall.op = "New"
    /\ \E i \in 1..Len(MetaTestCases) :
         fcall' = [op |-> "Test", trace |-> wantTr, req |-> MetaTestCases[i].req,
                   res |-> Fetch(wantTr, MetaTestCases[i].req),
                   expectedResults |-> MetaTestCases[i].expectedResults]
    /\ UNCHANGED <<syncVars, joinVars, distVars, lifeVars>>

NextFetch ==
    \/ BlockFetch
    \/ TestBackendBlockSearchFetchMetaData

SpecFetch == InitFetch /\ [][NextFetch]_vars

\* the test passes: require.Equal(t, tc.expectedResults, ss)
FetchPassesTest == fcall.op = "Test" => Sorted(fcall.res) = fcall.expectedResults

\* the resource and span of the trace that a returned span came from
SourceOf(sp) == fcall.trace[sp.id]

\* the checks of one returned span: for every condition and every list that
\* the scope of its attribute stands for, P(attrs, list, scope, cond)
ForEveryNamedAttribute(sp, P(_, _, _, _)) ==
    \A i \in 1..Len(fcall.req) :
      LET cond == fcall.req[i]
      IN  /\ cond.Attribute.scope \in {AttributeScopeSpan, AttributeScopeNone}
               => P(SourceOf(sp).span.attrs, sp.spanAttrs, AttributeScopeSpan, cond)
          /\ cond.Attribute.scope \in {AttributeScopeResource, AttributeScopeNone}
               => P(SourceOf(sp).resource, sp.resourceAttrs, AttributeScopeResource, cond)

\* the list names the attribute of the condition, with nil where the span
\* or resource has no such attribute
ListedAlways(attrs, list, scope, cond) ==
    \E k \in 1..Len(list) :
      /\ list[k].a = NewScopedAttribute(scope, cond.Attribute.name)
      /\ attrs[cond.Attribute.name] = Nil => list[k].s = NewStaticNil

\* the list names the attribute of the condition exactly when the span or
\* resource has it: with its value when the condition accepts the value,
\* with nil when it does not
ListedWhenPresent(attrs, list, scope, cond) ==
    IF attrs[cond.Attribute.name] = Nil
    THEN \A k \in 1..Len(list) :
           list[k].a # NewScopedAttribute(scope, cond.Attribute.name)
    ELSE \E k \in 1..Len(list) :
           /\ list[k].a = NewScopedAttribute(scope, cond.Attribute.name)
           /\ list[k].s = IF Matches(cond, Get(attrs[cond.Attribute.name]))
                          THEN NewStatic(Get(attrs[cond.Attribute.name]))
                          ELSE NewStaticNil

\* C31 as stated: every returned span lists every attribute that a
\* condition names in the list of its scope, in both lists when it is
\* unscoped, with a nil static where the span or resource has no such
\* attribute
C31_NamedAttributesListed ==
    \A n \in 1..Len(fcall.res) :
      ForEveryNamedAttribute(fcall.res[n], ListedAlways)

\* C31: every returned span lists every attribute that a condition names
\* and that the span (or its resource) has, in the list of its scope, in both
\* lists when it is unscoped: with its value when the condition accepts it
\* and with a nil static when it does not; an attribute that the span or
\* resource does not have is not listed
C31_PresentAttributesListed ==
    \A n \in 1..Len(fcall.res) :
      ForEveryNamedAttribute(fcall.res[n], ListedWhenPresent)

\* a span is returned for an unscoped attribute that its resource has not,
\* and lists a nil static
C31_Witness ==
    /\ fcall.op = "Fetch"
    /\ Len(fcall.res) = 1
    /\ \E i \in 1..Len(fcall.req) :
         /\ fcall.req[i].Attribute.scope = AttributeScopeNone
         /\ SourceOf(fcall.res[1]).resource[fcall.req[i].Attribute.name] = Nil
         /\ SourceOf(fcall.res[1]).span.attrs[fcall.req[i].Attribute.name] # Nil
    /\ \E k \in 1..Len(fcall.res[1].spanAttrs) : fcall.res[1].spanAttrs[k].s = NewStaticNil

=============================================================================
